---- MODULE Spec2Model ----
(***************************************************************************)
(* liana-codegen: the command line (crates/liana-codegen/src/main.rs), the *)
(* OpenAPI -> IR Schema Converter                                          *)
(* (crates/liana-codegen/src/parser/openapi.rs), the IR constructors it    *)
(* uses (crates/concord-core/src/lib.rs) and the Rust generator with its   *)
(* naming transforms (crates/liana-codegen/src/generator/rust.rs).         *)
(*                                                                         *)
(* Strings of the program are sequences of characters, one TLA+ string per *)
(* character, so that the character loops of the code are modelled as      *)
(* written.  Option<T> is a sequence of length 0 (None) or 1 (Some).       *)
(*                                                                         *)
(* State:                                                                  *)
(*   pc      position of main, of convert and of generate                  *)
(*   cli     the parsed command line (Cli::parse)                          *)
(*   spec    the deserialized document, once read                          *)
(*   items   Converter.items, the accumulator                              *)
(*   si, pi  positions of the loops over components.schemas and paths      *)
(*   module  the Module convert has returned                               *)
(*   code    the String generate builds; gi is the position of its loop    *)
(*           over module.items                                             *)
(*   out     what the run has produced outside the process: the output     *)
(*           directory, the written file, the lines printed on stdout      *)
(*   stages  the entries and returns of convert and generate, in order     *)
(*   nm      the state of the naming transforms run on their own           *)
(***************************************************************************)
EXTENDS Integers, Sequences, FiniteSets, TLC

VARIABLES pc, spec, items, si, pi, module, nm, cli, out, code, gi, stages

vars == <<pc, spec, items, si, pi, module, nm, cli, out, code, gi, stages>>

(***************************************************************************)
(* Bounds of the model.                                                    *)
(***************************************************************************)
MaxProps == 2
MaxEnum == 2
MaxBranches == 2
MaxParams == 2
MaxSchemas == 2
MaxPaths == 2
MaxLen == 3
MaxFields == 2
MaxVariants == 2
MaxItems == 2

(***************************************************************************)
(* Characters.  char::is_uppercase / is_lowercase / to_uppercase /         *)
(* to_lowercase are Unicode aware; the tables hold the ASCII letters and   *)
(* two code points on which the Unicode tables differ from ASCII habits:   *)
(*   U+03D2 (GREEK UPSILON WITH HOOK SYMBOL): category Lu, so              *)
(*           is_uppercase, and no lowercase mapping (to_lowercase yields   *)
(*           the character itself);                                        *)
(*   U+00DF (LATIN SMALL LETTER SHARP S): is_lowercase, to_uppercase       *)
(*           yields "SS", of which the code takes the first character.     *)
(***************************************************************************)
LowerLetters == <<"a", "b", "c", "d", "e", "f", "g", "h", "i", "j", "k", "l", "m", "n", "o", "p", "q", "r", "s", "t", "u", "v", "w", "x", "y", "z">>

UpperLetters == <<"A", "B", "C", "D", "E", "F", "G", "H", "I", "J", "K", "L", "M", "N", "O", "P", "Q", "R", "S", "T", "U", "V", "W", "X", "Y", "Z">>

Digits == {"0", "1", "2", "3", "4", "5", "6", "7", "8", "9"}

UpsilonHook == "U+03D2"

SharpS == "U+00DF"

Range(s) == {s[i] : i \in DOMAIN s}

IndexIn(c, s) == CHOOSE i \in DOMAIN s : s[i] = c

is_uppercase(c) == c \in Range(UpperLetters) \cup {UpsilonHook}

is_lowercase(c) == c \in Range(LowerLetters) \cup {SharpS}

is_alphanumeric(c) ==
    c \in Range(LowerLetters) \cup Range(UpperLetters) \cup Digits \cup {UpsilonHook, SharpS}

\* c.to_lowercase().next().unwrap()
to_lowercase_first(c) ==
    IF c \in Range(UpperLetters) THEN LowerLetters[IndexIn(c, UpperLetters)] ELSE c

\* c.to_uppercase().next().unwrap()
to_uppercase_first(c) ==
    IF c \in Range(LowerLetters) THEN UpperLetters[IndexIn(c, LowerLetters)]
    ELSE IF c = SharpS THEN "S"
    ELSE c

\* str::to_uppercase, character by character
to_uppercase(s) ==
    [i \in DOMAIN s |-> IF s[i] = SharpS THEN "S" ELSE to_uppercase_first(s[i])]

\* str::to_lowercase, character by character
to_lowercase(s) == [i \in DOMAIN s |-> to_lowercase_first(s[i])]

(***************************************************************************)
(* String literals of the source.                                          *)
(***************************************************************************)
S_Any == <<"A", "n", "y">>

S_String == <<"S", "t", "r", "i", "n", "g">>

S_f64 == <<"f", "6", "4">>

S_i64 == <<"i", "6", "4">>

S_bool == <<"b", "o", "o", "l">>

S_Vec == <<"V", "e", "c">>

S_Option == <<"O", "p", "t", "i", "o", "n">>

S_Result == <<"R", "e", "s", "u", "l", "t">>

S_ApiError == <<"A", "p", "i", "E", "r", "r", "o", "r">>

S_Unit == <<"U", "n", "i", "t">>

S_body == <<"b", "o", "d", "y">>

S_serde_rename == <<"s", "e", "r", "d", "e", "_", "r", "e", "n", "a", "m", "e">>

S_http_method == <<"h", "t", "t", "p", "_", "m", "e", "t", "h", "o", "d">>

S_http_path == <<"h", "t", "t", "p", "_", "p", "a", "t", "h">>

S_format == <<"f", "o", "r", "m", "a", "t">>

S_application_json == <<"a", "p", "p", "l", "i", "c", "a", "t", "i", "o", "n", "/", "j", "s", "o", "n">>

SchemaPrefix == <<"#", "/", "c", "o", "m", "p", "o", "n", "e", "n", "t", "s", "/", "s", "c", "h", "e", "m", "a", "s", "/">>

Keywords ==
    {<<"t", "y", "p", "e">>,
     <<"s", "e", "l", "f">>,
     <<"s", "u", "p", "e", "r">>,
     <<"c", "r", "a", "t", "e">>,
     <<"m", "o", "d">>,
     <<"f", "n">>,
     <<"l", "e", "t">>,
     <<"i", "f">>,
     <<"e", "l", "s", "e">>,
     <<"m", "a", "t", "c", "h">>,
     <<"l", "o", "o", "p">>,
     <<"w", "h", "i", "l", "e">>,
     <<"f", "o", "r">>,
     <<"i", "n">>,
     <<"r", "e", "f">>,
     <<"m", "u", "t">>,
     <<"c", "o", "n", "s", "t">>,
     <<"s", "t", "a", "t", "i", "c">>,
     <<"a", "s", "y", "n", "c">>,
     <<"a", "w", "a", "i", "t">>,
     <<"m", "o", "v", "e">>,
     <<"r", "e", "t", "u", "r", "n">>,
     <<"b", "r", "e", "a", "k">>,
     <<"c", "o", "n", "t", "i", "n", "u", "e">>}

(***************************************************************************)
(* Naming transforms.                                                      *)
(***************************************************************************)
RECURSIVE SnakeLoop(_, _, _, _)
\* the `for c in s.chars()` loop of to_snake_case: i is the position in s
SnakeLoop(s, i, result, prev_lower) ==
    IF i > Len(s) THEN result
    ELSE LET c == s[i] IN
         IF is_uppercase(c)
         THEN SnakeLoop(s, i + 1,
                        (IF prev_lower THEN Append(result, "_") ELSE result)
                            \o <<to_lowercase_first(c)>>,
                        FALSE)
         ELSE IF c = "-" \/ c = " "
         THEN SnakeLoop(s, i + 1, Append(result, "_"), FALSE)
         ELSE SnakeLoop(s, i + 1, Append(result, c), is_lowercase(c))

to_snake_case(s) ==
    LET result == SnakeLoop(s, 1, <<>>, FALSE) IN
    IF result \in Keywords THEN <<"r", "#">> \o result ELSE result

RECURSIVE PascalLoop(_, _, _, _)
\* the `for c in s.chars()` loop of to_pascal_case: i is the position in s
PascalLoop(s, i, result, capitalize_next) ==
    IF i > Len(s) THEN result
    ELSE LET c == s[i] IN
         IF c = "_" \/ c = "-" \/ c = " "
         THEN PascalLoop(s, i + 1, result, TRUE)
         ELSE IF capitalize_next
         THEN PascalLoop(s, i + 1, Append(result, to_uppercase_first(c)), FALSE)
         ELSE PascalLoop(s, i + 1, Append(result, c), capitalize_next)

\* parser/openapi.rs
to_pascal_case(s) == PascalLoop(s, 1, <<>>, TRUE)

\* generator/rust.rs (the same text as the parser's)
rust_to_pascal_case(s) == PascalLoop(s, 1, <<>>, TRUE)

RECURSIVE TrimStart(_, _)
TrimStart(s, c) ==
    IF s # <<>> /\ Head(s) = c THEN TrimStart(Tail(s), c) ELSE s

RECURSIVE TrimEnd(_, _)
TrimEnd(s, c) ==
    IF s # <<>> /\ s[Len(s)] = c THEN TrimEnd(SubSeq(s, 1, Len(s) - 1), c) ELSE s

trim_matches(s, c) == TrimEnd(TrimStart(s, c), c)

to_module_name(title) ==
    LET lower == to_lowercase(title)
        replaced == [i \in DOMAIN lower |->
                        IF is_alphanumeric(lower[i]) THEN lower[i] ELSE "_"]
    IN trim_matches(replaced, "_")

\* str::strip_prefix(prefix).unwrap_or(s)
strip_prefix_or(s, prefix) ==
    IF Len(s) >= Len(prefix) /\ SubSeq(s, 1, Len(prefix)) = prefix
    THEN SubSeq(s, Len(prefix) + 1, Len(s))
    ELSE s

(***************************************************************************)
(* IR (concord-core).  One record shape per IR struct; a TypeKind's        *)
(* payload is held in the field of its variant (ref, fields, variants,     *)
(* members) and the others are empty.                                      *)
(***************************************************************************)
None == <<>>

Some(x) == <<x>>

MkType(kind, ref, fields, variants, members, name, args, annotations, docs) ==
    [kind |-> kind, ref |-> ref, fields |-> fields, variants |-> variants,
     members |-> members, name |-> name, args |-> args,
     annotations |-> annotations, docs |-> docs]

\* Type::reference
reference(name) == MkType("Ref", name, <<>>, <<>>, <<>>, None, <<>>, <<>>, None)

\* Type::generic
generic(base, args) == MkType("Ref", base, <<>>, <<>>, <<>>, None, args, <<>>, None)

\* Annotation::with_string
with_string(kind, value) == [kind |-> kind, value |-> Some([tag |-> "String", str |-> value])]

(***************************************************************************)
(* The parsed document (openapiv3).  ReferenceOr<T> is                     *)
(*   [tag |-> "Reference", reference |-> s]  or  [tag |-> "Item", item |-> x].*)
(* A Schema is [schema_kind, typ, enumeration, format, properties,         *)
(* required, items, branches, description]: schema_kind is the SchemaKind  *)
(* variant, typ the openapiv3::Type variant when schema_kind = "Type";     *)
(* properties is the IndexMap in document order, a sequence of             *)
(* [name, schema_ref] with distinct names.                                 *)
(***************************************************************************)
Reference(s) == [tag |-> "Reference", reference |-> s]

Item(x) == [tag |-> "Item", item |-> x]

\* Result::Ok
Ok(x) == [tag |-> "Ok", val |-> x]

\* Result::ok(): Some(value) of an Ok, None of an Err
ok(r) == IF r.tag = "Ok" THEN Some(r.val) ELSE None

\* Result::unwrap_or_else(|_| d)
unwrap_or(r, d) == IF r.tag = "Ok" THEN r.val ELSE d

\* Option::unwrap_or_else(|| d)
opt_unwrap_or(o, d) == IF o = None THEN d ELSE o[1]

\* Vec::contains
contains(v, x) == \E i \in DOMAIN v : v[i] = x

\* IndexMap::get on a sequence of [key, value] pairs
map_get(m, k) ==
    IF \E i \in DOMAIN m : m[i].key = k
    THEN Some(m[CHOOSE i \in DOMAIN m : m[i].key = k /\ \A j \in 1..(i - 1) : m[j].key # k].value)
    ELSE None

(***************************************************************************)
(* Converter (parser/openapi.rs).  (TypeKind, Vec<Type>) pairs are Type    *)
(* records whose name, annotations and docs convert_schema fills in.       *)
(***************************************************************************)
KindArgs(kind, ref, fields, variants, members, args) ==
    MkType(kind, ref, fields, variants, members, None, args, <<>>, None)

RECURSIVE convert_schema(_, _)
RECURSIVE convert_schema_type(_)
RECURSIVE resolve_schema_ref(_)
RECURSIVE resolve_boxed_schema_ref(_)
RECURSIVE struct_fields(_, _)
RECURSIVE composition_members(_)

\* `if required { typ } else { Type::generic("Option", vec![typ]) }`
wrap_unless_required_swapped(required, typ) ==
    IF required THEN generic(S_Option, <<typ>>) ELSE typ

wrap_unless_required(required, typ) ==
    IF required THEN typ ELSE generic(S_Option, <<typ>>)

\* the closure mapped over obj.properties (and over any.properties)
struct_fields(properties, required) ==
    IF properties = <<>> THEN <<>>
    ELSE <<[name |-> Some(Head(properties).name),
            typ |-> wrap_unless_required(
                        contains(required, Head(properties).name),
                        unwrap_or(resolve_boxed_schema_ref(Head(properties).schema_ref),
                                  reference(S_Any))),
            annotations |-> <<>>]>>
         \o struct_fields(Tail(properties), required)

enum_variants_renamed_to_name(enumeration) ==
    LET vals == SelectSeq(enumeration, LAMBDA v : v # None) IN
    [i \in DOMAIN vals |->
        [name |-> to_pascal_case(vals[i][1]),
         fields |-> <<>>,
         annotations |-> <<with_string(S_serde_rename, to_pascal_case(vals[i][1]))>>]]

\* s.enumeration.iter().filter_map(|v| v.as_ref()).map(|v| Variant {..})
enum_variants(enumeration) ==
    LET vals == SelectSeq(enumeration, LAMBDA v : v # None) IN
    [i \in DOMAIN vals |->
        [name |-> to_pascal_case(vals[i][1]),
         fields |-> <<>>,
         annotations |-> <<with_string(S_serde_rename, vals[i][1])>>]]

composition_members_dropping_first(branches) ==
    IF branches = <<>> THEN <<>> ELSE composition_members(Tail(branches))

\* branches.iter().filter_map(|r| self.resolve_schema_ref(r).ok()).collect()
composition_members(branches) ==
    IF branches = <<>> THEN <<>>
    ELSE ok(resolve_schema_ref(Head(branches))) \o composition_members(Tail(branches))

\* the OaType::Array arm
array_type(arr_items) ==
    KindArgs("Ref", S_Vec, <<>>, <<>>, <<>>,
             <<opt_unwrap_or(IF arr_items = None THEN None
                             ELSE ok(resolve_boxed_schema_ref(arr_items[1])),
                             reference(S_Any))>>)

convert_schema_type(schema) ==
    CASE schema.typ = "String" ->
            IF schema.enumeration = <<>>
            THEN KindArgs("Ref", S_String, <<>>, <<>>, <<>>, <<>>)
            ELSE KindArgs("Enum", <<>>, <<>>, enum_variants(schema.enumeration), <<>>, <<>>)
      [] schema.typ = "Number" -> KindArgs("Ref", S_f64, <<>>, <<>>, <<>>, <<>>)
      [] schema.typ = "Integer" -> KindArgs("Ref", S_i64, <<>>, <<>>, <<>>, <<>>)
      [] schema.typ = "Boolean" -> KindArgs("Ref", S_bool, <<>>, <<>>, <<>>, <<>>)
      [] schema.typ = "Object" ->
            KindArgs("Struct", <<>>, struct_fields(schema.properties, schema.required),
                     <<>>, <<>>, <<>>)
      [] schema.typ = "Array" -> array_type(schema.items)

\* the "format" annotation of a string schema; format!("{f:?}").to_lowercase()
\* is the lower-cased name of the StringFormat variant
format_annotations(schema) ==
    IF schema.schema_kind = "Type" /\ schema.typ = "String"
    THEN CASE schema.format.tag = "Item" ->
                <<with_string(S_format, to_lowercase(schema.format.str))>>
           [] schema.format.tag = "Unknown" ->
                <<with_string(S_format, schema.format.str)>>
           [] OTHER -> <<>>
    ELSE <<>>

\* the `let (kind, args) = match &schema.schema_kind` of convert_schema
schema_kind_args(schema) ==
    CASE schema.schema_kind = "Type" -> convert_schema_type(schema)
      [] schema.schema_kind = "OneOf" ->
           KindArgs("Union", <<>>, <<>>, <<>>, composition_members(schema.branches), <<>>)
      [] schema.schema_kind = "AllOf" ->
           KindArgs("Intersection", <<>>, <<>>, <<>>,
                    composition_members(schema.branches), <<>>)
      [] schema.schema_kind = "AnyOf" ->
           KindArgs("Union", <<>>, <<>>, <<>>, composition_members(schema.branches), <<>>)
      [] schema.schema_kind = "Not" -> KindArgs("Ref", S_Any, <<>>, <<>>, <<>>, <<>>)
      [] schema.schema_kind = "Any" ->
           IF schema.properties = <<>>
           THEN KindArgs("Ref", S_Any, <<>>, <<>>, <<>>, <<>>)
           ELSE KindArgs("Struct", <<>>,
                         struct_fields(schema.properties, schema.required),
                         <<>>, <<>>, <<>>)

\* the `Ok(Type { kind, name, params, args, annotations, metadata })` of convert_schema
named_type(ka, name, annotations, docs) ==
    Ok(MkType(ka.kind, ka.ref, ka.fields, ka.variants, ka.members, name, ka.args,
              annotations, docs))

convert_schema(schema, name) ==
    named_type(schema_kind_args(schema), name, format_annotations(schema),
               schema.description)

resolve_schema_ref(schema_ref) ==
    IF schema_ref.tag = "Reference"
    THEN Ok(reference(strip_prefix_or(schema_ref.reference, SchemaPrefix)))
    ELSE convert_schema(schema_ref.item, None)

resolve_boxed_schema_ref(schema_ref) ==
    IF schema_ref.tag = "Reference"
    THEN Ok(reference(strip_prefix_or(schema_ref.reference, SchemaPrefix)))
    ELSE convert_schema(schema_ref.item, None)

(***************************************************************************)
(* Operations.  An Operation is [operation_id, parameters, request_body,   *)
(* responses, description, summary]; a Parameter is [in, parameter_data]   *)
(* with parameter_data = [name, required, format] and format either        *)
(* [tag |-> "Schema", schema |-> ReferenceOr<Schema>] or                   *)
(* [tag |-> "Content"]; a RequestBody and a Response are [content], an     *)
(* IndexMap from media type to [schema : Option<ReferenceOr<Schema>>];     *)
(* responses is [default : Option<ReferenceOr<Response>>, responses : an   *)
(* IndexMap from status code to ReferenceOr<Response>].                    *)
(***************************************************************************)
StatusOk == 200

Methods ==
    <<<<"g", "e", "t">>,
      <<"p", "o", "s", "t">>,
      <<"p", "u", "t">>,
      <<"d", "e", "l", "e", "t", "e">>,
      <<"p", "a", "t", "c", "h">>,
      <<"h", "e", "a", "d">>,
      <<"o", "p", "t", "i", "o", "n", "s">>,
      <<"t", "r", "a", "c", "e">>>>

\* format!("{method}_{}", path.replace('/', "_").replace(['{', '}'], ""))
fallback_name(path, method) ==
    LET slashed == [i \in DOMAIN path |-> IF path[i] = "/" THEN "_" ELSE path[i]]
    IN method \o <<"_">> \o SelectSeq(slashed, LAMBDA c : c # "{" /\ c # "}")

\* the type of one inline parameter, before the Option wrapping
param_base_type(format) ==
    IF format.tag = "Schema"
    THEN unwrap_or(resolve_schema_ref(format.schema), reference(S_String))
    ELSE reference(S_String)

\* the Param pushed for one inline parameter
convert_parameter(param_data) ==
    [name |-> Some(param_data.name),
     typ |-> IF param_data.required
             THEN param_base_type(param_data.format)
             ELSE generic(S_Option, <<param_base_type(param_data.format)>>),
     default |-> None,
     annotations |-> <<>>]

RECURSIVE convert_parameters(_)

convert_parameters_keeping_references(parameters) ==
    IF parameters = <<>> THEN <<>>
    ELSE (IF Head(parameters).tag = "Item"
          THEN <<convert_parameter(Head(parameters).item.parameter_data)>>
          ELSE <<[name |-> Some(Head(parameters).reference),
                  typ |-> reference(S_String),
                  default |-> None,
                  annotations |-> <<>>]>>)
         \o convert_parameters(Tail(parameters))

\* the `for param_ref in &op.parameters` loop
convert_parameters(parameters) ==
    IF parameters = <<>> THEN <<>>
    ELSE (IF Head(parameters).tag = "Item"
          THEN <<convert_parameter(Head(parameters).item.parameter_data)>>
          ELSE <<>>)
         \o convert_parameters(Tail(parameters))

\* the schema of the application/json entry of a content map
json_schema(content) ==
    IF map_get(content, S_application_json) = None THEN None
    ELSE map_get(content, S_application_json)[1].schema

\* the body Param pushed for a resolved body schema; the `?` passes an Err on
body_param(resolved) ==
    IF resolved.tag = "Ok"
    THEN Ok(<<[name |-> Some(S_body), typ |-> resolved.val, default |-> None,
               annotations |-> <<>>]>>)
    ELSE resolved

\* the request body block: the Params it pushes (none or one), or the error
\* the `?` on resolve_schema_ref returns
convert_request_body(request_body) ==
    IF request_body # None /\ request_body[1].tag = "Item"
                           /\ json_schema(request_body[1].item.content) # None
    THEN body_param(resolve_schema_ref(json_schema(request_body[1].item.content)[1]))
    ELSE Ok(<<>>)

\* the response selected by `default.as_ref().or_else(|| responses.get(200))`
selected_response_preferring_200(responses) ==
    IF map_get(responses.responses, StatusOk) # None
    THEN map_get(responses.responses, StatusOk)
    ELSE responses.default

selected_response(responses) ==
    IF responses.default # None
    THEN responses.default
    ELSE map_get(responses.responses, StatusOk)

\* `.and_then(|r| match r { Item(resp) => resp.content.get(json).schema, _ => None })`
response_schema(response) ==
    IF response = None THEN None
    ELSE IF response[1].tag = "Item" THEN json_schema(response[1].item.content)
    ELSE None

\* `.and_then(|schema| self.resolve_schema_ref(schema).ok())`
resolved_schema(schema) ==
    IF schema = None THEN None ELSE ok(resolve_schema_ref(schema[1]))

\* the `let ret = ...` chain and the Result wrapping
return_type(responses) ==
    generic(S_Result,
            <<opt_unwrap_or(resolved_schema(response_schema(selected_response(responses))),
                            reference(S_Unit)),
              reference(S_ApiError)>>)

http_annotations_raw_method(path, method) ==
    <<with_string(S_http_method, method), with_string(S_http_path, path)>>

http_annotations(path, method) ==
    <<with_string(S_http_method, to_uppercase(method)), with_string(S_http_path, path)>>

\* the `let name = ...` of convert_operation
operation_name(path, method, op) ==
    opt_unwrap_or(op.operation_id, fallback_name(path, method))

\* Ok(Function { .. }) given the Params of the request body block, or its error
build_function(path, method, op, body) ==
    IF body.tag = "Ok"
    THEN Ok([name |-> operation_name(path, method, op),
             args |-> convert_parameters(op.parameters) \o body.val,
             ret |-> return_type(op.responses),
             annotations |-> http_annotations(path, method),
             docs |-> IF op.description # None THEN op.description ELSE op.summary])
    ELSE body

convert_operation(path, method, op) ==
    build_function(path, method, op, convert_request_body(op.request_body))

path_item_operations_reversed(path_item) ==
    <<[method |-> Methods[8], op |-> path_item.trace],
      [method |-> Methods[7], op |-> path_item.options],
      [method |-> Methods[6], op |-> path_item.head],
      [method |-> Methods[5], op |-> path_item.patch],
      [method |-> Methods[4], op |-> path_item.delete],
      [method |-> Methods[3], op |-> path_item.put],
      [method |-> Methods[2], op |-> path_item.post],
      [method |-> Methods[1], op |-> path_item.get]>>

\* the operations array of convert_path_item
path_item_operations(path_item) ==
    <<[method |-> Methods[1], op |-> path_item.get],
      [method |-> Methods[2], op |-> path_item.post],
      [method |-> Methods[3], op |-> path_item.put],
      [method |-> Methods[4], op |-> path_item.delete],
      [method |-> Methods[5], op |-> path_item.patch],
      [method |-> Methods[6], op |-> path_item.head],
      [method |-> Methods[7], op |-> path_item.options],
      [method |-> Methods[8], op |-> path_item.trace]>>

RECURSIVE convert_path_item_loop(_, _, _)
RECURSIVE push_function(_, _, _, _)
\* `for (method, op) in operations`: acc_items is self.items so far
convert_path_item_loop(acc_items, path, operations) ==
    IF operations = <<>> THEN Ok(acc_items)
    ELSE IF Head(operations).op # None
    THEN push_function(acc_items, path, operations,
                       convert_operation(path, Head(operations).method,
                                         Head(operations).op[1]))
    ELSE convert_path_item_loop(acc_items, path, Tail(operations))

\* `let func = self.convert_operation(..)?; self.items.push(Item::Function(func))`
\* and the rest of the loop
push_function(acc_items, path, operations, func) ==
    IF func.tag = "Ok"
    THEN convert_path_item_loop(Append(acc_items, [item |-> "Function", func |-> func.val]),
                                path, Tail(operations))
    ELSE func

\* convert_path_item: the items after the call, or the error
convert_path_item(acc_items, path, path_item) ==
    convert_path_item_loop(acc_items, path, path_item_operations(path_item))

\* one iteration of `for (name, schema_ref) in &components.schemas`:
\* the items after it, or the error of convert_schema
\* `let typ = self.convert_schema(..)?; self.items.push(Item::Type(typ))`
push_type(acc_items, typ) ==
    IF typ.tag = "Ok"
    THEN Ok(Append(acc_items, [item |-> "Type", typ |-> typ.val]))
    ELSE typ

push_component_also_references(acc_items, name, schema_ref) ==
    Ok(Append(acc_items,
              [item |-> "Type",
               typ |-> [resolve_schema_ref(schema_ref).val EXCEPT !.name = Some(name)]]))

push_component(acc_items, name, schema_ref) ==
    IF schema_ref.tag = "Item"
    THEN push_type(acc_items, convert_schema(schema_ref.item, Some(name)))
    ELSE Ok(acc_items)

\* one iteration of `for (path, path_item_ref) in &self.spec.paths.paths`
push_path_item(acc_items, path, path_item_ref) ==
    IF path_item_ref.tag = "Item"
    THEN convert_path_item(acc_items, path, path_item_ref.item)
    ELSE Ok(acc_items)

\* the Module that convert returns
finalize(doc, acc_items) ==
    [name |-> to_module_name(doc.info.title),
     items |-> acc_items,
     submodules |-> <<>>,
     annotations |-> <<>>,
     docs |-> doc.info.description]

(***************************************************************************)
(* Generator (generator/rust.rs).  The text it writes is a sequence of     *)
(* lines, one per writeln!: a Line is the format string of the writeln!    *)
(* and the strings substituted for its placeholders, in order.  Strings    *)
(* that the generator computes (type_to_rust, the naming transforms) are   *)
(* sequences of characters.  Type parameters (Type.params, Function.params)*)
(* are empty in every Module of the model, so `generics` is the empty      *)
(* string.  A TypeKind::Function type holds its payload in the fields      *)
(* fn_params and fn_ret.                                                   *)
(***************************************************************************)
S_serde_json_Value ==
    <<"s", "e", "r", "d", "e", "_", "j", "s", "o", "n", ":", ":", "V", "a", "l", "u", "e">>

S_unit_type == <<"(", ")">>

S_never_type == <<"!">>

S_Never == <<"N", "e", "v", "e", "r">>

S_AnonymousStruct ==
    <<"A", "n", "o", "n", "y", "m", "o", "u", "s", "S", "t", "r", "u", "c", "t">>

S_Variant == <<"V", "a", "r", "i", "a", "n", "t">>

S_underscore == <<"_">>

S_rust == <<"r", "u", "s", "t">>

S_json == <<"j", "s", "o", "n">>

S_yaml == <<"y", "a", "m", "l">>

DecimalDigits == <<"0", "1", "2", "3", "4", "5", "6", "7", "8", "9">>

RECURSIVE to_string(_)
\* the Display of a usize
to_string(n) ==
    IF n < 10 THEN <<DecimalDigits[n + 1]>>
    ELSE to_string(n \div 10) \o <<DecimalDigits[(n % 10) + 1]>>

\* one writeln!(out, fmt, args..)
Line(fmt, args) == [fmt |-> fmt, args |-> args]

RECURSIVE join(_, _)
\* [String]::join(sep)
join(strs, sep) ==
    IF strs = <<>> THEN <<>>
    ELSE IF Len(strs) = 1 THEN strs[1]
    ELSE strs[1] \o sep \o join(Tail(strs), sep)

RECURSIVE lines(_)
\* str::lines(): the text between line feeds, no empty last line
lines(s) ==
    IF s = <<>> THEN <<>>
    ELSE IF \E i \in DOMAIN s : s[i] = "\n"
    THEN <<SubSeq(s, 1, (CHOOSE i \in DOMAIN s :
                            s[i] = "\n" /\ \A j \in 1..(i - 1) : s[j] # "\n") - 1)>>
         \o lines(SubSeq(s, (CHOOSE i \in DOMAIN s :
                                s[i] = "\n" /\ \A j \in 1..(i - 1) : s[j] # "\n") + 1,
                         Len(s)))
    ELSE <<s>>

\* the `///` lines of a doc comment
doc_lines(docs) ==
    IF docs = None THEN <<>>
    ELSE [i \in DOMAIN lines(docs[1]) |-> Line("/// {line}", <<lines(docs[1])[i]>>)]

\* the table of type_to_rust: the target-language name of a Ref name
rust_base(name) ==
    CASE name = S_Any -> S_serde_json_Value
      [] name = S_Unit -> S_unit_type
      [] name = S_Never -> S_never_type
      [] OTHER -> name

RECURSIVE type_to_rust(_)
RECURSIVE types_to_rust(_)

\* typ.args.iter().map(type_to_rust).collect()
types_to_rust(typs) ==
    IF typs = <<>> THEN <<>>
    ELSE <<type_to_rust(Head(typs))>> \o types_to_rust(Tail(typs))

\* params.iter().map(|p| type_to_rust(&p.typ)).collect()
param_types(params) == [i \in DOMAIN params |-> params[i].typ]

\* the Intersection arm of type_to_rust
intersection_to_rust(typ) ==
    IF typ.members = <<>> THEN S_serde_json_Value ELSE type_to_rust(typ.members[1])

type_to_rust(typ) ==
    CASE typ.kind = "Ref" ->
            IF typ.args = <<>> THEN rust_base(typ.ref)
            ELSE rust_base(typ.ref) \o <<"<">>
                    \o join(types_to_rust(typ.args), <<",", " ">>) \o <<">">>
      [] typ.kind = "Struct" -> opt_unwrap_or(typ.name, S_AnonymousStruct)
      [] typ.kind = "Enum" -> opt_unwrap_or(typ.name, S_String)
      [] typ.kind = "Function" ->
            <<"f", "n", "(">> \o join(types_to_rust(param_types(typ.fn_params)), <<",", " ">>)
                \o <<")", " ", "-", ">", " ">> \o type_to_rust(typ.fn_ret)
      [] typ.kind = "Union" ->
            IF typ.members = <<>> THEN S_serde_json_Value
            ELSE type_to_rust(typ.members[1])
      [] typ.kind = "Intersection" -> intersection_to_rust(typ)

S_derive == "#[derive(Debug, Clone, PartialEq, Serialize, Deserialize)]"

\* `field.name.as_deref().unwrap_or("_")`
field_original(field) == opt_unwrap_or(field.name, S_underscore)

\* one field of a named struct: the rename directive if the name changed, the field
struct_field_lines(field) ==
    (IF to_snake_case(field_original(field)) # field_original(field)
     THEN <<Line("    #[serde(rename = \"{original}\")]", <<field_original(field)>>)>>
     ELSE <<>>)
    \o <<Line("    pub {field_name}: {typ_str},",
              <<to_snake_case(field_original(field)), type_to_rust(field.typ)>>)>>

RECURSIVE named_struct_lines(_)
\* the `for field in fields` loop of a named struct
named_struct_lines(fields) ==
    IF fields = <<>> THEN <<>>
    ELSE struct_field_lines(Head(fields)) \o named_struct_lines(Tail(fields))

generate_struct(name, fields) ==
    <<Line(S_derive, <<>>)>>
    \o (IF fields = <<>>
        THEN <<Line("pub struct {name}{generics};", <<name, <<>>>>)>>
        ELSE IF \A i \in DOMAIN fields : fields[i].name = None
        THEN <<Line("pub struct {name}{generics}(", <<name, <<>>>>)>>
             \o [i \in DOMAIN fields |->
                    Line("    pub {typ_str},", <<type_to_rust(fields[i].typ)>>)]
             \o <<Line(");", <<>>)>>
        ELSE <<Line("pub struct {name}{generics} {{", <<name, <<>>>>)>>
             \o named_struct_lines(fields)
             \o <<Line("}}", <<>>)>>)
    \o <<Line("", <<>>)>>

\* the String value of an annotation, if it has one
string_value(annotation) ==
    IF annotation.value # None /\ annotation.value[1].tag = "String"
    THEN Some(annotation.value[1].str)
    ELSE None

\* `variant.annotations.iter().find_map(..)`: the value of the first
\* "serde_rename" annotation that holds a String
variant_rename(annotations) ==
    IF \E i \in DOMAIN annotations :
          annotations[i].kind = S_serde_rename /\ string_value(annotations[i]) # None
    THEN string_value(
             annotations[CHOOSE i \in DOMAIN annotations :
                 /\ annotations[i].kind = S_serde_rename
                 /\ string_value(annotations[i]) # None
                 /\ \A j \in 1..(i - 1) :
                       ~(annotations[j].kind = S_serde_rename
                         /\ string_value(annotations[j]) # None)])
    ELSE None

\* one variant of generate_enum
variant_lines(variant) ==
    IF variant.fields = <<>>
    THEN (IF variant_rename(variant.annotations) # None
             /\ variant_rename(variant.annotations)[1] # rust_to_pascal_case(variant.name)
          THEN <<Line("    #[serde(rename = \"{original}\")]",
                      <<variant_rename(variant.annotations)[1]>>)>>
          ELSE <<>>)
         \o <<Line("    {variant_name},", <<rust_to_pascal_case(variant.name)>>)>>
    ELSE IF \A i \in DOMAIN variant.fields : variant.fields[i].name = None
    THEN <<Line("    {variant_name}({}),",
                <<rust_to_pascal_case(variant.name),
                  join(types_to_rust([i \in DOMAIN variant.fields |->
                                         variant.fields[i].typ]),
                       <<",", " ">>)>>)>>
    ELSE <<Line("    {variant_name} {{", <<rust_to_pascal_case(variant.name)>>)>>
         \o [i \in DOMAIN variant.fields |->
                Line("        {field_name}: {typ_str},",
                     <<to_snake_case(field_original(variant.fields[i])),
                       type_to_rust(variant.fields[i].typ)>>)]
         \o <<Line("    }},", <<>>)>>

RECURSIVE variants_lines(_)
\* the `for variant in variants` loop
variants_lines(variants) ==
    IF variants = <<>> THEN <<>>
    ELSE variant_lines(Head(variants)) \o variants_lines(Tail(variants))

generate_enum(name, variants) ==
    <<Line(S_derive, <<>>), Line("pub enum {name}{generics} {{", <<name, <<>>>>)>>
    \o variants_lines(variants)
    \o <<Line("}}", <<>>), Line("", <<>>)>>

\* the Union arm of generate_type
generate_union(name, members) ==
    <<Line(S_derive, <<>>), Line("#[serde(untagged)]", <<>>),
      Line("pub enum {name} {{", <<name>>)>>
    \o [i \in DOMAIN members |->
           Line("    {variant_name}({typ_str}),",
                <<opt_unwrap_or(members[i].name, S_Variant \o to_string(i - 1)),
                  type_to_rust(members[i])>>)]
    \o <<Line("}}", <<>>), Line("", <<>>)>>

\* the Ref arm of generate_type: a type alias
generate_alias(name, typ) ==
    <<Line("pub type {name} = {target}{args_str};",
           <<name, typ.ref,
             IF typ.args = <<>> THEN <<>>
             ELSE <<"<">> \o join(types_to_rust(typ.args), <<",", " ">>) \o <<">">>>>),
      Line("", <<>>)>>

\* the Function arm of generate_type: a function type alias
generate_fn_alias(name, typ) ==
    <<Line("pub type {name} = fn({}) -> {ret_str};",
           <<name, join(types_to_rust(param_types(typ.fn_params)), <<",", " ">>),
             type_to_rust(typ.fn_ret)>>),
      Line("", <<>>)>>

generate_type(typ) ==
    IF typ.name = None THEN <<>>
    ELSE doc_lines(typ.docs)
         \o CASE typ.kind = "Struct" -> generate_struct(typ.name[1], typ.fields)
              [] typ.kind = "Enum" -> generate_enum(typ.name[1], typ.variants)
              [] typ.kind = "Union" -> generate_union(typ.name[1], typ.members)
              [] typ.kind = "Ref" -> generate_alias(typ.name[1], typ)
              [] typ.kind = "Function" -> generate_fn_alias(typ.name[1], typ)
              [] typ.kind = "Intersection" ->
                   <<Line("// TODO: Intersection type {name}", <<typ.name[1]>>),
                     Line("", <<>>)>>

\* `.iter().find(|a| a.kind == kind).and_then(|a| the String value of a)`
http_annotation(annotations, kind) ==
    IF \E i \in DOMAIN annotations : annotations[i].kind = kind
    THEN string_value(
             annotations[CHOOSE i \in DOMAIN annotations :
                 /\ annotations[i].kind = kind
                 /\ \A j \in 1..(i - 1) : annotations[j].kind # kind])
    ELSE None

\* the `/// HTTP:` comment of a function
http_comment(annotations) ==
    IF http_annotation(annotations, S_http_method) # None
       /\ http_annotation(annotations, S_http_path) # None
    THEN <<Line("/// HTTP: {method} {path}",
                <<http_annotation(annotations, S_http_method)[1],
                  http_annotation(annotations, S_http_path)[1]>>)>>
    ELSE <<>>

\* format!("{name}: {typ}") of every argument
function_args(args) ==
    [i \in DOMAIN args |->
        to_snake_case(opt_unwrap_or(args[i].name, S_underscore))
            \o <<":", " ">> \o type_to_rust(args[i].typ)]

generate_function(func) ==
    doc_lines(func.docs)
    \o http_comment(func.annotations)
    \o <<Line("pub async fn {func_name}{generics}({args}) -> {ret} {{",
              <<to_snake_case(func.name), <<>>,
                join(function_args(func.args), <<",", " ">>),
                type_to_rust(func.ret)>>),
         Line("    todo!()", <<>>),
         Line("}}", <<>>),
         Line("", <<>>)>>

\* the Item::Const arm of generate; value.debug is the Debug text of the value
generate_const(cst) ==
    <<Line("pub const {name}: {typ_str} = {val_str};",
           <<cst.name, type_to_rust(cst.typ), cst.value.debug>>),
      Line("", <<>>)>>

generate_item_types_only(it) ==
    IF it.item = "Type" THEN generate_type(it.typ) ELSE <<>>

\* the body of `for item in &module.items`: the lines one item adds to the text
generate_item(it) ==
    CASE it.item = "Type" -> generate_type(it.typ)
      [] it.item = "Function" -> generate_function(it.func)
      [] it.item = "Const" -> generate_const(it)

\* the text before the items: the module doc comment and the preamble
Preamble ==
    <<Line("use serde::{{Deserialize, Serialize}};", <<>>),
      Line("", <<>>),
      Line("/// API error type.", <<>>),
      Line(S_derive, <<>>),
      Line("pub struct ApiError {{", <<>>),
      Line("    pub message: String,", <<>>),
      Line("    pub code: Option<String>,", <<>>),
      Line("}}", <<>>),
      Line("", <<>>)>>

module_header(m) ==
    (IF m.docs # None THEN <<Line("//! {docs}", <<m.docs[1]>>), Line("", <<>>)>> ELSE <<>>)
    \o Preamble

(***************************************************************************)
(* main.rs.  The command line is [command |-> "Openapi", target] or        *)
(* [command |-> "DumpIr", format]; the schema and output paths play no     *)
(* part in the control flow.                                               *)
(***************************************************************************)
\* `match target.as_str() { "rust" => .., other => bail }`
known_target_any(target) == TRUE

known_target(target) == target = S_rust

\* `match format.as_str() { "json" => .., "yaml" => .., other => bail }`
known_format(format) == format \in {S_json, S_yaml}

\* the invocations that call generator::rust::generate
runs_generator_any_command(cmd) == TRUE

runs_generator(cmd) == cmd.command = "Openapi" /\ known_target(cmd.target)

\* what an invocation has produced: the output directory, the file written
\* into it, the lines printed on standard output
NoOutput == [dir |-> FALSE, file |-> None, stdout |-> <<>>]

(***************************************************************************)
(* Input documents.  The documents the model reads are drawn from three    *)
(* families, each rich in one part of the document: one component schema   *)
(* of every shape (SchemaDocs), several components and paths of simple     *)
(* shapes (LayoutDocs), one path with operations of every shape (OpDocs).  *)
(* Keys of the IndexMaps are given by position, so they are distinct.      *)
(***************************************************************************)
SeqsUpTo(S, n) == UNION {[1..k -> S] : k \in 0..n}

SchemaKeys ==
    <<<<"P", "e", "t">>, <<"O", "w", "n", "e", "r">>, <<"T", "a", "g">>,
      <<"O", "r", "d", "e", "r">>>>

PropNames ==
    <<<<"i", "d">>, <<"o", "w", "n", "e", "r", "I", "d">>, <<"t", "a", "g">>,
      <<"k", "i", "n", "d">>>>

ParamNames ==
    <<<<"l", "i", "m", "i", "t">>, <<"X", "-", "T", "r", "a", "c", "e">>,
      <<"p", "e", "t", "I", "d">>, <<"s", "e", "s", "s", "i", "o", "n">>>>

PathKeys ==
    <<<<"/", "p", "e", "t", "s">>, <<"/", "p", "e", "t", "s", "/", "{", "i", "d", "}">>,
      <<"/", "o", "w", "n", "e", "r", "s">>, <<"/", "t", "a", "g", "s">>>>

NoFormat == [tag |-> "Empty", str |-> <<>>]

MkSchema(schema_kind, typ, enumeration, format, properties, required, arr_items, branches) ==
    [schema_kind |-> schema_kind, typ |-> typ, enumeration |-> enumeration,
     format |-> format, properties |-> properties, required |-> required,
     items |-> arr_items, branches |-> branches, description |-> None]

Plain(typ) == MkSchema("Type", typ, <<>>, NoFormat, <<>>, <<>>, None, <<>>)

\* "#/components/schemas/Pet": names the component Pet
RefPet == Reference(SchemaPrefix \o SchemaKeys[1])

\* "#/components/schemas/Ghost": names no component of any document
RefGhost == Reference(SchemaPrefix \o <<"G", "h", "o", "s", "t">>)

\* "other.yaml#/Pet": a reference into another file
RefForeign ==
    Reference(<<"o", "t", "h", "e", "r", ".", "y", "a", "m", "l", "#", "/", "P", "e", "t">>)

LeafRefs == {RefPet, RefGhost, RefForeign, Item(Plain("String")), Item(Plain("Integer"))}

\* {"id": integer}, nothing required
NestedObject ==
    MkSchema("Type", "Object", <<>>, NoFormat,
             <<[name |-> PropNames[1], schema_ref |-> Item(Plain("Integer"))]>>,
             <<>>, None, <<>>)

PropRefs == {RefPet, RefGhost, Item(Plain("String")), Item(NestedObject)}

\* the names of the positions in req, in order (a required list)
NamesAt(req, n) == SelectSeq([i \in 1..n |-> PropNames[i]],
                             LAMBDA x : \E i \in req : PropNames[i] = x)

ObjectSchemas ==
    {MkSchema(k[1], k[2], <<>>, NoFormat,
              [i \in DOMAIN ps |-> [name |-> PropNames[i], schema_ref |-> ps[i]]],
              NamesAt(req, Len(ps)), None, <<>>) :
        k \in {<<"Type", "Object">>, <<"Any", "None">>},
        ps \in SeqsUpTo(PropRefs, MaxProps),
        req \in SUBSET (1..MaxProps)}

EnumVals ==
    {None, Some(<<"i", "n", "_", "s", "t", "o", "c", "k">>),
     Some(<<"i", "n", "S", "t", "o", "c", "k">>)}

Formats ==
    {NoFormat, [tag |-> "Item", str |-> <<"D", "a", "t", "e">>],
     [tag |-> "Unknown", str |-> <<"u", "u", "i", "d">>]}

StringSchemas ==
    {MkSchema("Type", "String", e, f, <<>>, <<>>, None, <<>>) :
        e \in SeqsUpTo(EnumVals, MaxEnum), f \in Formats}

ArraySchemas ==
    {MkSchema("Type", "Array", <<>>, NoFormat, <<>>, <<>>, i, <<>>) :
        i \in {None} \cup {Some(r) : r \in LeafRefs}}

BranchRefs == {RefPet, RefForeign, Item(Plain("String")), Item(Plain("Integer"))}

CompositionSchemas ==
    {MkSchema(k, "None", <<>>, NoFormat, <<>>, <<>>, None, b) :
        k \in {"OneOf", "AllOf", "AnyOf"}, b \in SeqsUpTo(BranchRefs, MaxBranches)}

OtherSchemas ==
    {Plain("Number"), Plain("Integer"), Plain("Boolean"),
     MkSchema("Not", "None", <<>>, NoFormat, <<>>, <<>>, None, <<>>)}

RichSchemas ==
    ObjectSchemas \cup StringSchemas \cup ArraySchemas \cup CompositionSchemas
        \cup OtherSchemas

JsonContent(schema) == <<[key |-> S_application_json, value |-> [schema |-> schema]]>>

TextContent ==
    <<[key |-> <<"t", "e", "x", "t", "/", "p", "l", "a", "i", "n">>,
       value |-> [schema |-> Some(Item(Plain("String")))]]>>

\* a request body or a response, behind an Option<ReferenceOr<..>>
Bodies(schemas) ==
    {None, Some(Reference(<<"#", "/", "x">>)), Some(Item([content |-> TextContent])),
     Some(Item([content |-> JsonContent(None)]))}
        \cup {Some(Item([content |-> JsonContent(Some(r))])) : r \in schemas}

MkParam(kind, name, required, format) ==
    Item([in |-> kind,
          parameter_data |-> [name |-> name, required |-> required, format |-> format]])

\* the parameter shapes a position i of the list can hold
ParamsAt(i) ==
    {Reference(<<"#", "/", "p">>),
     MkParam("Query", ParamNames[i], TRUE,
             [tag |-> "Schema", schema |-> Item(Plain("Integer"))]),
     MkParam("Header", ParamNames[i], FALSE, [tag |-> "Schema", schema |-> RefGhost]),
     MkParam("Path", ParamNames[i], TRUE, [tag |-> "Content"]),
     MkParam("Cookie", ParamNames[i], FALSE,
             [tag |-> "Schema", schema |-> Item(Plain("String"))])}

ParamLists ==
    UNION {{ps \in [1..k -> UNION {ParamsAt(i) : i \in 1..k}] :
                \A i \in 1..k : ps[i] \in ParamsAt(i)} : k \in 0..MaxParams}

MkOperation(operation_id, parameters, request_body, default, responses) ==
    [operation_id |-> operation_id, parameters |-> parameters,
     request_body |-> request_body,
     responses |-> [default |-> default, responses |-> responses],
     description |-> None, summary |-> None]

SimpleOp == MkOperation(None, <<>>, None, None, <<>>)

OperationIds == {None, Some(<<"l", "i", "s", "t", "P", "e", "t", "s">>)}

\* operations rich in parameters and request body
ParamOps ==
    {MkOperation(None, ps, b, None, <<>>) :
        ps \in ParamLists, b \in Bodies({RefPet, Item(Plain("Boolean"))})}

\* operations rich in responses: status 404 precedes status 200 in the map
RespOps ==
    {MkOperation(id, <<>>, None, d,
                 (IF r = None THEN <<>>
                  ELSE <<[key |-> 404, value |-> Item([content |-> TextContent])],
                         [key |-> StatusOk, value |-> r[1]]>>)) :
        id \in OperationIds,
        d \in Bodies({RefPet}),
        r \in Bodies({Item(Plain("Integer"))})}

\* the path item that defines operation f[k] for the k-th method
MkPathItem(f) ==
    [get |-> f[1], post |-> f[2], put |-> f[3], delete |-> f[4],
     patch |-> f[5], head |-> f[6], options |-> f[7], trace |-> f[8]]

OnlyMethod(k, op) == MkPathItem([j \in 1..8 |-> IF j = k THEN Some(op) ELSE None])

PathItems ==
    {OnlyMethod(k, op) : k \in 1..8, op \in RespOps}
        \cup {OnlyMethod(k, op) : k \in {1, 4}, op \in ParamOps}
        \cup {MkPathItem([j \in 1..8 |-> IF j \in M THEN Some(SimpleOp) ELSE None]) :
                M \in SUBSET (1..8)}

MkDoc(components, paths, title, description) ==
    [components |-> components, paths |-> paths,
     info |-> [title |-> title, description |-> description]]

Title == <<"P", "e", "t", " ", "S", "t", "o", "r", "e">>

Infos ==
    {[title |-> Title, description |-> None],
     [title |-> <<"_", "A", "P", "I", "-", "2", "!">>,
      description |-> Some(<<"d", "o", "c", "s">>)]}

Keyed(keys, vals) == [i \in DOMAIN vals |-> [key |-> keys[i], value |-> vals[i]]]

SchemaDocs ==
    {MkDoc(Some([schemas |-> Keyed(SchemaKeys, <<Item(s)>>)]), <<>>, Title, None) :
        s \in RichSchemas}

LayoutEntries ==
    {Reference(SchemaPrefix \o SchemaKeys[1]), Item(Plain("String")), Item(NestedObject)}

LayoutPathItems ==
    {Reference(<<"#", "/", "i">>),
     Item(MkPathItem([j \in 1..8 |-> None])),
     Item(OnlyMethod(1, SimpleOp)),
     Item(MkPathItem([j \in 1..8 |-> IF j \in {2, 8} THEN Some(SimpleOp) ELSE None]))}

LayoutDocs ==
    {MkDoc(c, Keyed(PathKeys, ps), i.title, i.description) :
        c \in {None} \cup {Some([schemas |-> Keyed(SchemaKeys, es)]) :
                              es \in SeqsUpTo(LayoutEntries, MaxSchemas)},
        ps \in SeqsUpTo(LayoutPathItems, MaxPaths),
        i \in Infos}

OpDocs ==
    {MkDoc(Some([schemas |-> Keyed(SchemaKeys, <<Item(NestedObject)>>)]),
           <<[key |-> PathKeys[2], value |-> Item(p)]>>, Title, None) :
        p \in PathItems}

\* allOf [Pet, string], inline
InlineAllOf ==
    MkSchema("AllOf", "None", <<>>, NoFormat, <<>>, <<>>, None,
             <<RefPet, Item(Plain("String"))>>)

\* an object whose one property is an inline allOf, required or not
IntersectionDocs ==
    {MkDoc(Some([schemas |->
                   Keyed(SchemaKeys,
                         <<Item(Plain("Integer")),
                           Item(MkSchema("Type", "Object", <<>>, NoFormat,
                                         <<[name |-> PropNames[1],
                                            schema_ref |-> Item(InlineAllOf)]>>,
                                         req, None, <<>>))>>)]),
           <<>>, Title, None) :
        req \in {<<>>, <<PropNames[1]>>}}

\* "/pets/{id}" and "/pets/id", "/pets_id": paths that differ in braces or
\* in a slash against an underscore, each with one operation without id
CollidingDocs ==
    {MkDoc(None,
           <<[key |-> PathKeys[2], value |-> Item(OnlyMethod(1, SimpleOp))],
             [key |-> p, value |-> Item(OnlyMethod(k, SimpleOp))]>>,
           Title, None) :
        p \in {<<"/", "p", "e", "t", "s", "/", "i", "d">>,
               <<"/", "p", "e", "t", "s", "_", "i", "d">>},
        k \in {1, 2}}

EdgeDocs == IntersectionDocs \cup CollidingDocs

Docs == SchemaDocs \cup LayoutDocs \cup OpDocs \cup EdgeDocs

(***************************************************************************)
(* Command lines, and IR Modules for the generator on its own: Modules of  *)
(* every shape the IR allows, among them shapes the converter never builds *)
(* (tuple and struct variants, unnamed Type items, Function types, Const   *)
(* items).  One family holds one item of every shape (RichModules), the    *)
(* other several items of simple shapes (LayoutModules).                   *)
(***************************************************************************)
Commands ==
    {[command |-> "Openapi", target |-> S_rust],
     [command |-> "Openapi", target |-> <<"g", "o">>],
     [command |-> "DumpIr", format |-> S_json],
     [command |-> "DumpIr", format |-> S_yaml],
     [command |-> "DumpIr", format |-> <<"x", "m", "l">>]}

\* TypeKind::Function { params, ret }
function_type(fn_params, fn_ret, name) ==
    [kind |-> "Function", ref |-> <<>>, fields |-> <<>>, variants |-> <<>>,
     members |-> <<>>, name |-> name, args |-> <<>>, annotations |-> <<>>,
     docs |-> None, fn_params |-> fn_params, fn_ret |-> fn_ret]

MkField(name, typ) == [name |-> name, typ |-> typ, annotations |-> <<>>]

MkParamIR(name, typ) == [name |-> name, typ |-> typ, default |-> None, annotations |-> <<>>]

IntersectionOf(members, name) ==
    MkType("Intersection", <<>>, <<>>, <<>>, members, name, <<>>, <<>>, None)

UnionOf(members, name) ==
    MkType("Union", <<>>, <<>>, <<>>, members, name, <<>>, <<>>, None)

\* an anonymous allOf of two declared types
PetAndOwner == IntersectionOf(<<reference(SchemaKeys[1]), reference(SchemaKeys[2])>>, None)

FieldTypes ==
    {reference(S_String), generic(S_Option, <<reference(SchemaKeys[1])>>), PetAndOwner}

\* id, ownerId, type, and the absent name of a positional field
FieldNames ==
    {None, Some(PropNames[1]), Some(PropNames[2]), Some(<<"t", "y", "p", "e">>)}

IRFields == {MkField(n, t) : n \in FieldNames, t \in FieldTypes}

StructTypes ==
    {MkType("Struct", <<>>, fs, <<>>, <<>>, Some(SchemaKeys[1]), <<>>, <<>>, None) :
        fs \in SeqsUpTo(IRFields, MaxFields)}

\* annotation lists of a variant: none, a rename that differs from every
\* variant name of the model, a rename equal to the Pascal-cased name, and a
\* valueless "serde_rename" flag before a rename
VariantAnnotations ==
    {<<>>,
     <<with_string(S_serde_rename, <<"i", "n", "_", "s", "t", "o", "c", "k">>)>>,
     <<with_string(S_serde_rename, <<"I", "n", "S", "t", "o", "c", "k">>)>>,
     <<[kind |-> S_serde_rename, value |-> None],
       with_string(S_serde_rename, <<"s", "o", "l", "d">>)>>}

VariantFields ==
    {<<>>,
     <<MkField(None, reference(S_String))>>,
     <<MkField(Some(PropNames[2]), reference(S_i64))>>,
     <<MkField(Some(PropNames[1]), PetAndOwner), MkField(Some(PropNames[3]), reference(S_bool))>>}

VariantNames == {<<"I", "n", "S", "t", "o", "c", "k">>, <<"s", "o", "l", "d", "_", "o", "u", "t">>}

IRVariants ==
    {[name |-> n, fields |-> f, annotations |-> a] :
        n \in VariantNames, f \in VariantFields, a \in VariantAnnotations}

\* enums of one variant of every shape, and enums of several unit variants
EnumTypes ==
    {MkType("Enum", <<>>, <<>>, <<v>>, <<>>, Some(SchemaKeys[3]), <<>>, <<>>, None) :
        v \in IRVariants}
    \cup {MkType("Enum", <<>>, <<>>, vs, <<>>, Some(SchemaKeys[3]), <<>>, <<>>, None) :
            vs \in SeqsUpTo({v \in IRVariants : v.fields = <<>>}, MaxVariants)}

\* named Refs: the names of the table of type_to_rust and a declared type
AliasTypes ==
    {MkType("Ref", r, <<>>, <<>>, <<>>, Some(SchemaKeys[4]), a, <<>>, d) :
        r \in {S_String, S_i64, S_f64, S_bool, S_Any, S_Unit, S_Never, S_Vec, SchemaKeys[1]},
        a \in {<<>>, <<reference(S_Any)>>, <<reference(S_String), PetAndOwner>>},
        d \in {None, Some(<<"a", "n", " ", "i", "d", "\n", "o", "f", " ", "x">>)}}

OtherTypes ==
    {IntersectionOf(<<>>, Some(SchemaKeys[2])),
     IntersectionOf(<<reference(SchemaKeys[1]), reference(SchemaKeys[3])>>, Some(SchemaKeys[2])),
     UnionOf(<<>>, Some(SchemaKeys[2])),
     UnionOf(<<reference(S_String), PetAndOwner,
               MkType("Struct", <<>>, <<>>, <<>>, <<>>, Some(SchemaKeys[1]), <<>>, <<>>, None)>>,
             Some(SchemaKeys[2])),
     function_type(<<>>, reference(S_Unit), Some(SchemaKeys[2])),
     function_type(<<MkParamIR(Some(PropNames[1]), reference(S_i64)),
                     MkParamIR(None, PetAndOwner)>>,
                   generic(S_Vec, <<PetAndOwner>>), Some(SchemaKeys[2]))}

NamedTypes == StructTypes \cup EnumTypes \cup AliasTypes \cup OtherTypes

\* the same types without a name
UnnamedTypes ==
    {[t EXCEPT !.name = None] : t \in AliasTypes \cup OtherTypes}

MkFunctionIR(name, args, ret, annotations, docs) ==
    [name |-> name, args |-> args, ret |-> ret, annotations |-> annotations, docs |-> docs]

IRFunctions ==
    {MkFunctionIR(n, a, r, h, None) :
        n \in {<<"l", "i", "s", "t", "P", "e", "t", "s">>, <<"g", "e", "t", "_", "_", "p", "e", "t", "s">>},
        a \in {<<>>,
               <<MkParamIR(Some(ParamNames[3]), reference(S_i64)),
                 MkParamIR(Some(S_body), PetAndOwner)>>},
        r \in {generic(S_Result, <<reference(S_Unit), reference(S_ApiError)>>), PetAndOwner},
        h \in {<<>>, http_annotations(PathKeys[1], Methods[1]),
               <<with_string(S_http_method, <<"G", "E", "T">>)>>}}

IRConsts ==
    {[item |-> "Const", name |-> <<"M", "A", "X">>, typ |-> t,
      value |-> [debug |-> <<"N", "u", "m", "b", "e", "r", "(", "3", ")">>]] :
        t \in {reference(S_i64), PetAndOwner}}

TypeItem(typ) == [item |-> "Type", typ |-> typ]

FunctionItem(func) == [item |-> "Function", func |-> func]

RichItems ==
    {TypeItem(t) : t \in NamedTypes \cup UnnamedTypes}
    \cup {FunctionItem(f) : f \in IRFunctions}
    \cup IRConsts

LayoutItems ==
    {TypeItem(MkType("Struct", <<>>, <<>>, <<>>, <<>>, Some(SchemaKeys[1]), <<>>, <<>>, None)),
     TypeItem(reference(S_String)),
     TypeItem(IntersectionOf(<<reference(SchemaKeys[1])>>, Some(SchemaKeys[2]))),
     FunctionItem(MkFunctionIR(<<"p", "i", "n", "g">>, <<>>, reference(S_Unit), <<>>, None))}

MkModule(its, docs) ==
    [name |-> <<"a", "p", "i">>, items |-> its, submodules |-> <<>>,
     annotations |-> <<>>, docs |-> docs]

RichModules == {MkModule(<<it>>, None) : it \in RichItems}

LayoutModules ==
    {MkModule(its, d) :
        its \in SeqsUpTo(LayoutItems, MaxItems), d \in {None, Some(<<"d", "o", "c", "s">>)}}

IRModules == RichModules \cup LayoutModules

(***************************************************************************)
(* The run of parse(): read, deserialize, Converter::new, convert.         *)
(*   pc      where the run is: "start", "schemas" (the components loop),   *)
(*           "paths" (the paths loop), "parsed" (convert returned Ok), or  *)
(*           one of "read_failed", "parse_failed", "convert_failed"        *)
(*   spec    Converter.spec: None before the document is deserialized      *)
(*   items   Converter.items, the accumulator                              *)
(*   si, pi  the next position of the components loop and of the paths loop*)
(*   module  the Module convert returned, None before                      *)
(*   nm      the naming transforms under test (NamingSpec)                 *)
(***************************************************************************)
NamingOff == [stage |-> "off"]

Init ==
    /\ pc = "start"
    /\ spec = None
    /\ items = <<>>
    /\ si = 0
    /\ pi = 0
    /\ module = None
    /\ nm = NamingOff
    /\ cli \in Commands
    /\ out = NoOutput
    /\ code = <<>>
    /\ gi = 0
    /\ stages = <<>>

\* fs::read_to_string fails
ReadFails ==
    /\ pc = "start"
    /\ pc' = "read_failed"
    /\ UNCHANGED <<spec, items, si, pi, module, nm>>
    /\ UNCHANGED <<cli, out, code, gi, stages>>

\* serde_yaml / serde_json reject the content
ParseFails ==
    /\ pc = "start"
    /\ pc' = "parse_failed"
    /\ UNCHANGED <<spec, items, si, pi, module, nm>>
    /\ UNCHANGED <<cli, out, code, gi, stages>>

\* the content deserializes; Converter::new; convert is entered
ParseOk ==
    /\ pc = "start"
    /\ \E d \in Docs : spec' = Some(d)
    /\ items' = <<>>
    /\ si' = 1
    /\ pc' = "schemas"
    /\ stages' = Append(stages, "convert_enter")
    /\ UNCHANGED <<pi, module, nm, cli, out, code, gi>>

Schemas == IF spec[1].components = None THEN <<>> ELSE spec[1].components[1].schemas

\* the accumulator after one loop iteration; an Err leaves convert through `?`
Step(r) ==
    IF r.tag = "Ok"
    THEN items' = r.val /\ pc' = pc
    ELSE items' = items /\ pc' = "convert_failed"

ConvertComponent ==
    /\ pc = "schemas"
    /\ si <= Len(Schemas)
    /\ Step(push_component(items, Schemas[si].key, Schemas[si].value))
    /\ si' = si + 1
    /\ UNCHANGED <<spec, pi, module, nm>>
    /\ UNCHANGED <<cli, out, code, gi, stages>>

SchemasDone ==
    /\ pc = "schemas"
    /\ si > Len(Schemas)
    /\ pc' = "paths"
    /\ pi' = 1
    /\ UNCHANGED <<spec, items, si, module, nm>>
    /\ UNCHANGED <<cli, out, code, gi, stages>>

ConvertPathItem ==
    /\ pc = "paths"
    /\ pi <= Len(spec[1].paths)
    /\ Step(push_path_item(items, spec[1].paths[pi].key, spec[1].paths[pi].value))
    /\ pi' = pi + 1
    /\ UNCHANGED <<spec, si, module, nm>>
    /\ UNCHANGED <<cli, out, code, gi, stages>>

Finalize ==
    /\ pc = "paths"
    /\ pi > Len(spec[1].paths)
    /\ module' = Some(finalize(spec[1], items))
    /\ pc' = "parsed"
    /\ stages' = Append(stages, "convert_return")
    /\ UNCHANGED <<spec, items, si, pi, nm, cli, out, code, gi>>

\* `other => anyhow::bail!("Unknown target: {other}")`
UnknownTarget ==
    /\ pc = "parsed"
    /\ cli.command = "Openapi"
    /\ ~known_target(cli.target)
    /\ pc' = "unknown_target"
    /\ UNCHANGED <<spec, items, si, pi, module, nm, cli, out, code, gi, stages>>

\* generate is entered: create_dir_all succeeds, the text starts with the
\* module doc comment and the preamble
GenerateEnter ==
    /\ pc = "parsed"
    /\ runs_generator(cli)
    /\ out' = [out EXCEPT !.dir = TRUE]
    /\ code' = module_header(module[1])
    /\ gi' = 1
    /\ stages' = Append(stages, "generate_enter")
    /\ pc' = "items"
    /\ UNCHANGED <<spec, items, si, pi, module, nm, cli>>

\* generate is entered and create_dir_all fails
CreateDirFails ==
    /\ pc = "parsed"
    /\ runs_generator(cli)
    /\ stages' = Append(stages, "generate_enter")
    /\ pc' = "create_dir_failed"
    /\ UNCHANGED <<spec, items, si, pi, module, nm, cli, out, code, gi>>

\* one iteration of `for item in &module.items`
GenerateItem ==
    /\ pc = "items"
    /\ gi <= Len(module[1].items)
    /\ code' = code \o generate_item(module[1].items[gi])
    /\ gi' = gi + 1
    /\ UNCHANGED <<pc, spec, items, si, pi, module, nm, cli, out, stages>>

\* fs::write succeeds; generate returns Ok
WriteFile ==
    /\ pc = "items"
    /\ gi > Len(module[1].items)
    /\ out' = [out EXCEPT !.file = Some(code)]
    /\ stages' = Append(stages, "generate_return")
    /\ pc' = "generated"
    /\ UNCHANGED <<spec, items, si, pi, module, nm, cli, code, gi>>

\* fs::write fails
WriteFails ==
    /\ pc = "items"
    /\ gi > Len(module[1].items)
    /\ pc' = "write_failed"
    /\ UNCHANGED <<spec, items, si, pi, module, nm, cli, out, code, gi, stages>>

\* println!("Generated {} bindings in {}", ..); main returns Ok
PrintGenerated ==
    /\ pc = "generated"
    /\ out' = [out EXCEPT !.stdout = Append(@, [printed |-> "Generated", target |-> cli.target])]
    /\ pc' = "done"
    /\ UNCHANGED <<spec, items, si, pi, module, nm, cli, code, gi, stages>>

\* `other => anyhow::bail!("Unknown format: {other}")`
UnknownFormat ==
    /\ pc = "parsed"
    /\ cli.command = "DumpIr"
    /\ ~known_format(cli.format)
    /\ pc' = "unknown_format"
    /\ UNCHANGED <<spec, items, si, pi, module, nm, cli, out, code, gi, stages>>

\* the IR is serialized in the format asked for and printed; main returns Ok
DumpIr ==
    /\ pc = "parsed"
    /\ cli.command = "DumpIr"
    /\ known_format(cli.format)
    /\ out' = [out EXCEPT !.stdout =
                  Append(@, [printed |-> "IR", format |-> cli.format, ir |-> module[1]])]
    /\ pc' = "done"
    /\ UNCHANGED <<spec, items, si, pi, module, nm, cli, code, gi, stages>>

Next ==
    \/ ReadFails
    \/ ParseFails
    \/ ParseOk
    \/ ConvertComponent
    \/ SchemasDone
    \/ ConvertPathItem
    \/ Finalize
    \/ UnknownTarget
    \/ GenerateEnter
    \/ CreateDirFails
    \/ GenerateItem
    \/ WriteFile
    \/ WriteFails
    \/ PrintGenerated
    \/ UnknownFormat
    \/ DumpIr

Spec == Init /\ [][Next]_vars

(***************************************************************************)
(* The generator on its own: generate is called on a Module of IRModules.  *)
(***************************************************************************)
GenInit ==
    /\ pc = "parsed"
    /\ spec = None
    /\ items = <<>>
    /\ si = 0
    /\ pi = 0
    /\ \E m \in IRModules : module = Some(m)
    /\ nm = NamingOff
    /\ cli = [command |-> "Openapi", target |-> S_rust]
    /\ out = NoOutput
    /\ code = <<>>
    /\ gi = 0
    /\ stages = <<"convert_enter", "convert_return">>

GenNext ==
    \/ GenerateEnter
    \/ CreateDirFails
    \/ GenerateItem
    \/ WriteFile
    \/ WriteFails
    \/ PrintGenerated

GenSpec == GenInit /\ [][GenNext]_vars

(***************************************************************************)
(* The naming transforms on their own: every string over NameChars of      *)
(* length at most MaxLen is normalized once, and the result once more.     *)
(***************************************************************************)
NameChars == {"i", "f", "n", "I", "F", "r", "1", "#", "_", "-", " ", UpsilonHook, SharpS}

NameInputs == SeqsUpTo(NameChars, MaxLen)

NamingInit ==
    /\ pc = "naming"
    /\ spec = None
    /\ items = <<>>
    /\ si = 0
    /\ pi = 0
    /\ module = None
    /\ cli = [command |-> "Openapi", target |-> S_rust]
    /\ out = NoOutput
    /\ code = <<>>
    /\ gi = 0
    /\ stages = <<>>
    /\ \E s \in NameInputs :
          nm = [stage |-> "input", input |-> s, snake |-> <<>>, pascal |-> <<>>,
                rust_pascal |-> <<>>, snake2 |-> <<>>, pascal2 |-> <<>>,
                rust_pascal2 |-> <<>>]

NormalizeOnce ==
    /\ nm.stage = "input"
    /\ nm' = [nm EXCEPT !.stage = "once",
                        !.snake = to_snake_case(nm.input),
                        !.pascal = to_pascal_case(nm.input),
                        !.rust_pascal = rust_to_pascal_case(nm.input)]
    /\ UNCHANGED <<pc, spec, items, si, pi, module>>
    /\ UNCHANGED <<cli, out, code, gi, stages>>

NormalizeAgain ==
    /\ nm.stage = "once"
    /\ nm' = [nm EXCEPT !.stage = "twice",
                        !.snake2 = to_snake_case(nm.snake),
                        !.pascal2 = to_pascal_case(nm.pascal),
                        !.rust_pascal2 = rust_to_pascal_case(nm.rust_pascal)]
    /\ UNCHANGED <<pc, spec, items, si, pi, module>>
    /\ UNCHANGED <<cli, out, code, gi, stages>>

NamingNext == NormalizeOnce \/ NormalizeAgain

NamingSpec == NamingInit /\ [][NamingNext]_vars

(***************************************************************************)
(* Properties.  What the converter has consumed so far, read back from     *)
(* the state: component i has been converted once si has passed it, and    *)
(* its Type item sits after those of the inline components before it.      *)
(***************************************************************************)
\* convert has returned its Module
Parsed ==
    pc \in {"parsed", "unknown_target", "items", "create_dir_failed", "generated",
            "write_failed", "done", "unknown_format"}

Running == pc \in {"schemas", "paths"} \/ Parsed

ConvertedComponents ==
    IF Running
    THEN {i \in DOMAIN Schemas : i < si /\ Schemas[i].value.tag = "Item"}
    ELSE {}

InlineUpTo(i) == Cardinality({j \in 1..i : Schemas[j].value.tag = "Item"})

SchemaOf(i) == Schemas[i].value.item

HasTypeItem(i) == InlineUpTo(i) <= Len(items) /\ items[InlineUpTo(i)].item = "Type"

TypeOf(i) == items[InlineUpTo(i)].typ

ComponentKeys == {Schemas[i].key : i \in DOMAIN Schemas}

HasPrefix(s, prefix) == Len(s) >= Len(prefix) /\ SubSeq(s, 1, Len(prefix)) = prefix

\* a $ref that is foreign or names no component schema of the document
Unresolvable(schema_ref) ==
    /\ schema_ref.tag = "Reference"
    /\ \/ ~HasPrefix(schema_ref.reference, SchemaPrefix)
       \/ SubSeq(schema_ref.reference, Len(SchemaPrefix) + 1, Len(schema_ref.reference))
              \notin ComponentKeys

\* the type a schema position resolves to
Resolved(schema_ref) == resolve_schema_ref(schema_ref).val

IsOptionOf(typ, inner) ==
    /\ typ.kind = "Ref"
    /\ typ.ref = S_Option
    /\ typ.args = <<inner>>

IsObjectSchema(schema) ==
    \/ schema.schema_kind = "Type" /\ schema.typ = "Object"
    \/ schema.schema_kind = "Any" /\ schema.properties # <<>>

RECURSIVE ObjectFieldsOk(_, _)
\* typ is the Struct of the object schema: one Field per property, in order,
\* named after it, its type bare when required and Option-wrapped when not;
\* and so for the object schemas inline in its properties
ObjectFieldsOk(schema, typ) ==
    /\ typ.kind = "Struct"
    /\ Len(typ.fields) = Len(schema.properties)
    /\ \A k \in DOMAIN schema.properties :
          LET p == schema.properties[k]
              f == typ.fields[k]
              required == \E j \in DOMAIN schema.required : schema.required[j] = p.name
              inner == IF required THEN f.typ ELSE f.typ.args[1]
          IN /\ f.name = Some(p.name)
             /\ IF required
                THEN f.typ = Resolved(p.schema_ref)
                ELSE IsOptionOf(f.typ, Resolved(p.schema_ref))
             /\ (p.schema_ref.tag = "Item" /\ IsObjectSchema(p.schema_ref.item))
                    => ObjectFieldsOk(p.schema_ref.item, inner)

\* C1: every property of a converted object schema becomes a Field named
\* after it, whose type is the resolved property type when the property is
\* in the required list and Option of exactly that type when it is not.
C1_RequiredBareOptionalWrapped ==
    \A i \in ConvertedComponents :
        IsObjectSchema(SchemaOf(i)) =>
            HasTypeItem(i) /\ ObjectFieldsOk(SchemaOf(i), TypeOf(i))

\* an object with a required and a non-required property has been converted
C1_Witness ==
    \E i \in ConvertedComponents :
        /\ IsObjectSchema(SchemaOf(i))
        /\ Len(SchemaOf(i).properties) >= 2
        /\ Len(SchemaOf(i).required) = 1
        /\ HasTypeItem(i)
        /\ \E k \in DOMAIN TypeOf(i).fields : TypeOf(i).fields[k].typ.ref = S_Option
        /\ \E k \in DOMAIN TypeOf(i).fields : TypeOf(i).fields[k].typ.ref # S_Option

(***************************************************************************)
(* The operations consumed so far, in the order convert meets them, and    *)
(* the Function items, in the order of the accumulator.                    *)
(***************************************************************************)
ConvertedPaths ==
    IF pc = "paths" \/ Parsed THEN SubSeq(spec[1].paths, 1, pi - 1) ELSE <<>>

MethodOps(path_item) ==
    <<path_item.get, path_item.post, path_item.put, path_item.delete,
      path_item.patch, path_item.head, path_item.options, path_item.trace>>

DefinedMethods(path_item) ==
    SelectSeq([k \in 1..8 |-> k], LAMBDA k : MethodOps(path_item)[k] # None)

RECURSIVE OperationsOf(_)
OperationsOf(paths) ==
    IF paths = <<>> THEN <<>>
    ELSE (IF Head(paths).value.tag = "Item"
          THEN [j \in DOMAIN DefinedMethods(Head(paths).value.item) |->
                   [path |-> Head(paths).key,
                    method |-> DefinedMethods(Head(paths).value.item)[j],
                    op |-> MethodOps(Head(paths).value.item)[
                               DefinedMethods(Head(paths).value.item)[j]][1]]]
          ELSE <<>>)
         \o OperationsOf(Tail(paths))

ConvertedOperations == OperationsOf(ConvertedPaths)

Functions ==
    LET fs == SelectSeq(items, LAMBDA it : it.item = "Function")
    IN [k \in DOMAIN fs |-> fs[k].func]

\* the k-th Function item belongs to the k-th converted operation
Paired == Len(Functions) = Len(ConvertedOperations)

OpIndices == IF Paired THEN DOMAIN Functions ELSE {}

\* the application/json schema of a content map, as a sequence (none or one)
JsonSchemaOf(content) ==
    LET hits == SelectSeq(content, LAMBDA e : e.key = S_application_json)
    IN IF hits = <<>> THEN <<>> ELSE Head(hits).value.schema

(***************************************************************************)
(* C2  (refuted by the code: resolve_schema_ref and                        *)
(* resolve_boxed_schema_ref never fail, so no fallback is ever taken)      *)
(***************************************************************************)
\* C2: an unresolvable reference never aborts conversion and the type
\* produced at its position is Ref{"Any"}: as a struct field (inside the
\* Option of a non-required property), as an array item, as a composition
\* member, as a parameter type, as the request body and as the response.
C2_UnresolvableYieldsAny ==
    /\ pc # "convert_failed"
    /\ \A i \in ConvertedComponents :
          HasTypeItem(i) =>
             LET schema == SchemaOf(i)
                 typ == TypeOf(i)
             IN /\ (IsObjectSchema(schema) /\ Len(typ.fields) = Len(schema.properties)) =>
                      \A k \in DOMAIN schema.properties :
                         Unresolvable(schema.properties[k].schema_ref) =>
                            \/ typ.fields[k].typ = reference(S_Any)
                            \/ IsOptionOf(typ.fields[k].typ, reference(S_Any))
                /\ (schema.schema_kind = "Type" /\ schema.typ = "Array"
                        /\ schema.items # None /\ Unresolvable(schema.items[1])) =>
                      typ.args = <<reference(S_Any)>>
                /\ (schema.schema_kind \in {"OneOf", "AnyOf", "AllOf"}
                        /\ Len(typ.members) = Len(schema.branches)) =>
                      \A k \in DOMAIN schema.branches :
                         Unresolvable(schema.branches[k]) =>
                            typ.members[k] = reference(S_Any)
    /\ \A k \in OpIndices :
          LET op == ConvertedOperations[k].op
              inline == SelectSeq(op.parameters, LAMBDA q : q.tag = "Item")
              f == Functions[k]
          IN /\ Len(f.args) >= Len(inline) =>
                   \A j \in DOMAIN inline :
                      (inline[j].item.parameter_data.format.tag = "Schema"
                          /\ Unresolvable(inline[j].item.parameter_data.format.schema)) =>
                         \/ f.args[j].typ = reference(S_Any)
                         \/ IsOptionOf(f.args[j].typ, reference(S_Any))
             /\ (op.request_body # None /\ op.request_body[1].tag = "Item"
                    /\ JsonSchemaOf(op.request_body[1].item.content) # None
                    /\ Unresolvable(JsonSchemaOf(op.request_body[1].item.content)[1])
                    /\ f.args # <<>>) =>
                   f.args[Len(f.args)].typ = reference(S_Any)
             /\ (op.responses.default # None /\ op.responses.default[1].tag = "Item"
                    /\ JsonSchemaOf(op.responses.default[1].item.content) # None
                    /\ Unresolvable(JsonSchemaOf(op.responses.default[1].item.content)[1])) =>
                   f.ret.args = <<reference(S_Any), reference(S_ApiError)>>

(***************************************************************************)
(* C3                                                                      *)
(***************************************************************************)
IsEnumSchema(schema) ==
    schema.schema_kind = "Type" /\ schema.typ = "String" /\ schema.enumeration # <<>>

IsUnitVariantRenamed(variant, literal) ==
    /\ variant.fields = <<>>
    /\ variant.annotations =
          <<[kind |-> S_serde_rename, value |-> Some([tag |-> "String", str |-> literal])]>>

\* C3 as stated: a string schema whose enumeration list has N entries yields
\* an Enum of exactly N unit variants, in order, each renamed to its entry.
C3_OneVariantPerEntry ==
    \A i \in ConvertedComponents :
        IsEnumSchema(SchemaOf(i)) =>
            /\ HasTypeItem(i)
            /\ TypeOf(i).kind = "Enum"
            /\ Len(TypeOf(i).variants) = Len(SchemaOf(i).enumeration)
            /\ \A k \in DOMAIN SchemaOf(i).enumeration :
                  /\ SchemaOf(i).enumeration[k] # None
                  /\ IsUnitVariantRenamed(TypeOf(i).variants[k],
                                          SchemaOf(i).enumeration[k][1])

\* C3 amended: a string schema with a non-empty enumeration list yields an
\* Enum with exactly one unit variant per non-null entry, in the order of the
\* list, each carrying a "serde_rename" annotation equal to its entry; null
\* entries yield no variant.
C3_OneVariantPerNonNullEntry ==
    \A i \in ConvertedComponents :
        IsEnumSchema(SchemaOf(i)) =>
            LET literals == SelectSeq(SchemaOf(i).enumeration, LAMBDA e : e # None)
            IN /\ HasTypeItem(i)
               /\ TypeOf(i).kind = "Enum"
               /\ Len(TypeOf(i).variants) = Len(literals)
               /\ \A k \in DOMAIN literals :
                     IsUnitVariantRenamed(TypeOf(i).variants[k], literals[k][1])

\* an enumeration with a null entry and two literals has been converted
C3_Witness ==
    \E i \in ConvertedComponents :
        /\ IsEnumSchema(SchemaOf(i))
        /\ \E k \in DOMAIN SchemaOf(i).enumeration : SchemaOf(i).enumeration[k] = None
        /\ \E k \in DOMAIN SchemaOf(i).enumeration : SchemaOf(i).enumeration[k] # None
        /\ HasTypeItem(i)
        /\ TypeOf(i).kind = "Enum"
        /\ Len(TypeOf(i).variants) >= 1

(***************************************************************************)
(* C4                                                                      *)
(***************************************************************************)
\* the elements of a set of positions, in increasing order
Ascending(S) ==
    CHOOSE f \in [1..Cardinality(S) -> S] :
        \A a, b \in 1..Cardinality(S) : a < b => f[a] < f[b]

\* members are the types of the branches at the positions kept, in branch
\* order, and every branch left out is unresolvable
MembersOfKept(members, branches, kept) ==
    /\ Len(members) = Cardinality(kept)
    /\ \A j \in 1..Cardinality(kept) : members[j] = Resolved(branches[Ascending(kept)[j]])
    /\ \A b \in (DOMAIN branches) \ kept : Unresolvable(branches[b])

\* C4: oneOf / anyOf with K branches yields a Union of at most K members, in
\* branch order, fewer than K only when a branch is unresolvable; allOf with
\* K branches yields an Intersection of exactly K members, in branch order.
C4_CompositionMembers ==
    \A i \in ConvertedComponents :
        /\ SchemaOf(i).schema_kind \in {"OneOf", "AnyOf"} =>
              /\ HasTypeItem(i)
              /\ TypeOf(i).kind = "Union"
              /\ Len(TypeOf(i).members) <= Len(SchemaOf(i).branches)
              /\ \E kept \in SUBSET (DOMAIN SchemaOf(i).branches) :
                    MembersOfKept(TypeOf(i).members, SchemaOf(i).branches, kept)
        /\ SchemaOf(i).schema_kind = "AllOf" =>
              /\ HasTypeItem(i)
              /\ TypeOf(i).kind = "Intersection"
              /\ Len(TypeOf(i).members) = Len(SchemaOf(i).branches)
              /\ \A k \in DOMAIN SchemaOf(i).branches :
                    TypeOf(i).members[k] = Resolved(SchemaOf(i).branches[k])

\* a oneOf or anyOf of two different branches, one of them an unresolvable
\* reference, has been converted to a Union
C4_Witness ==
    \E i \in ConvertedComponents :
        /\ SchemaOf(i).schema_kind \in {"OneOf", "AnyOf"}
        /\ Len(SchemaOf(i).branches) >= 2
        /\ SchemaOf(i).branches[1] # SchemaOf(i).branches[2]
        /\ \E b \in DOMAIN SchemaOf(i).branches : Unresolvable(SchemaOf(i).branches[b])
        /\ HasTypeItem(i)
        /\ TypeOf(i).kind = "Union"
        /\ Len(TypeOf(i).members) = Len(SchemaOf(i).branches)

(***************************************************************************)
(* C5                                                                      *)
(***************************************************************************)
UpperMethods ==
    <<<<"G", "E", "T">>,
      <<"P", "O", "S", "T">>,
      <<"P", "U", "T">>,
      <<"D", "E", "L", "E", "T", "E">>,
      <<"P", "A", "T", "C", "H">>,
      <<"H", "E", "A", "D">>,
      <<"O", "P", "T", "I", "O", "N", "S">>,
      <<"T", "R", "A", "C", "E">>>>

HasStringAnnotation(annotations, kind, str) ==
    \E a \in DOMAIN annotations :
        /\ annotations[a].kind = kind
        /\ annotations[a].value = Some([tag |-> "String", str |-> str])

\* after is before with exactly one Function appended per defined method of
\* the path item, in method order, annotated with the upper-case method and
\* the path as it is in the document
AppendsOneFunctionPerMethod(before, after, path, path_item) ==
    LET defined == DefinedMethods(path_item) IN
    /\ Len(after) = Len(before) + Len(defined)
    /\ SubSeq(after, 1, Len(before)) = before
    /\ \A j \in DOMAIN defined :
          LET it == after[Len(before) + j] IN
          /\ it.item = "Function"
          /\ HasStringAnnotation(it.func.annotations, S_http_method, UpperMethods[defined[j]])
          /\ HasStringAnnotation(it.func.annotations, S_http_path, path)

\* C5: converting an inline path item that defines M of the 8 methods appends
\* exactly M Function items, one per defined method, each with "http_method"
\* the method in upper case and "http_path" the unmodified path.
C5_OneFunctionPerDefinedMethod ==
    [][(pc = "paths" /\ pi' = pi + 1 /\ spec[1].paths[pi].value.tag = "Item") =>
          AppendsOneFunctionPerMethod(items, items', spec[1].paths[pi].key,
                                      spec[1].paths[pi].value.item)]_vars

\* an inline path item defining two methods has just been converted
C5_Witness ==
    /\ pc = "paths"
    /\ pi > 1
    /\ spec[1].paths[pi - 1].value.tag = "Item"
    /\ Len(DefinedMethods(spec[1].paths[pi - 1].value.item)) = 2
    /\ Len(Functions) >= 2
    /\ HasStringAnnotation(Functions[Len(Functions)].annotations, S_http_method,
                           UpperMethods[8])

(***************************************************************************)
(* C6                                                                      *)
(***************************************************************************)
\* the response the claim selects: default if declared, else status 200
ClaimedResponse(responses) ==
    IF responses.default # None THEN responses.default
    ELSE LET hits == SelectSeq(responses.responses, LAMBDA e : e.key = 200)
         IN IF hits = <<>> THEN None ELSE Some(Head(hits).value)

ClaimedReturn(responses) ==
    LET r == ClaimedResponse(responses)
        schema == IF r # None /\ r[1].tag = "Item"
                  THEN JsonSchemaOf(r[1].item.content) ELSE None
    IN IF schema = None THEN reference(S_Unit) ELSE Resolved(schema[1])

\* C6: the return type of every Function is Ref{"Result"} with two
\* arguments: the type of the application/json schema of the default
\* response, else of the status-200 response, or Ref{"Unit"} when there is no
\* such schema; and Ref{"ApiError"}.
C6_ReturnIsResultOfResponse ==
    /\ Paired
    /\ \A k \in OpIndices :
          /\ Functions[k].ret.kind = "Ref"
          /\ Functions[k].ret.ref = S_Result
          /\ Functions[k].ret.args =
                <<ClaimedReturn(ConvertedOperations[k].op.responses), reference(S_ApiError)>>

\* an operation declaring a default and a status-200 response, both with a
\* JSON schema, has been converted and returns the type of the default
C6_Witness ==
    \E k \in OpIndices :
        LET rs == ConvertedOperations[k].op.responses IN
        /\ rs.default # None
        /\ rs.default[1].tag = "Item"
        /\ JsonSchemaOf(rs.default[1].item.content) # None
        /\ \E e \in DOMAIN rs.responses :
              /\ rs.responses[e].key = 200
              /\ rs.responses[e].value.tag = "Item"
              /\ JsonSchemaOf(rs.responses[e].value.item.content) # None
        /\ Functions[k].ret.args[1] = reference(SchemaKeys[1])

(***************************************************************************)
(* C7                                                                      *)
(***************************************************************************)
\* the Param the claim gives an inline parameter
ClaimedParam(parameter) ==
    [name |-> Some(parameter.item.parameter_data.name),
     typ |-> IF parameter.item.parameter_data.required
             THEN param_base_type(parameter.item.parameter_data.format)
             ELSE generic(S_Option, <<param_base_type(parameter.item.parameter_data.format)>>),
     default |-> None,
     annotations |-> <<>>]

\* whether the operation has an inline request body whose application/json
\* content carries a schema
HasJsonBody(op) ==
    /\ op.request_body # None
    /\ op.request_body[1].tag = "Item"
    /\ JsonSchemaOf(op.request_body[1].item.content) # None

IsBodyParam(param, op) ==
    /\ param.name = Some(S_body)
    /\ param.typ = Resolved(JsonSchemaOf(op.request_body[1].item.content)[1])

\* C7 as stated: one Param per declared parameter, in declaration order
\* (named and Option-wrapped as claimed wherever the declaration is inline),
\* followed by one Param named body exactly when there is a JSON request body.
C7_OneParamPerDeclaredParameter ==
    /\ Paired
    /\ \A k \in OpIndices :
          LET op == ConvertedOperations[k].op
              args == Functions[k].args
              n == Len(op.parameters)
          IN /\ Len(args) = n + (IF HasJsonBody(op) THEN 1 ELSE 0)
             /\ \A j \in 1..n :
                   op.parameters[j].tag = "Item" => args[j] = ClaimedParam(op.parameters[j])
             /\ HasJsonBody(op) => IsBodyParam(args[n + 1], op)

\* C7 amended: the argument list is one Param per inline (non-$ref) declared
\* parameter, in declaration order, named after it and Option-wrapped iff it
\* is not required, a parameter declared by reference yielding no Param;
\* followed by one Param named body iff the operation has an inline request
\* body whose application/json content carries a schema.
C7_OneParamPerInlineParameter ==
    /\ Paired
    /\ \A k \in OpIndices :
          LET op == ConvertedOperations[k].op
              args == Functions[k].args
              inline == SelectSeq(op.parameters, LAMBDA q : q.tag = "Item")
              n == Len(inline)
          IN /\ Len(args) = n + (IF HasJsonBody(op) THEN 1 ELSE 0)
             /\ \A j \in 1..n : args[j] = ClaimedParam(inline[j])
             /\ HasJsonBody(op) => IsBodyParam(args[n + 1], op)

\* an operation with a parameter by reference, a non-required inline
\* parameter and a JSON request body has been converted
C7_Witness ==
    \E k \in OpIndices :
        LET op == ConvertedOperations[k].op IN
        /\ \E j \in DOMAIN op.parameters : op.parameters[j].tag = "Reference"
        /\ \E j \in DOMAIN op.parameters :
              /\ op.parameters[j].tag = "Item"
              /\ ~op.parameters[j].item.parameter_data.required
        /\ HasJsonBody(op)
        /\ Len(Functions[k].args) = 2
        /\ Functions[k].args[1].typ.ref = S_Option
        /\ Functions[k].args[2].name = Some(S_body)

(***************************************************************************)
(* C8                                                                      *)
(***************************************************************************)
ModuleItems == IF module = None THEN <<>> ELSE module[1].items

\* the number of Type items of the Module named Some(key)
TypeItemsNamed(key) ==
    Cardinality({k \in DOMAIN ModuleItems :
                    ModuleItems[k].item = "Type" /\ ModuleItems[k].typ.name = Some(key)})

\* C8 as stated: every entry of components/schemas yields exactly one
\* Item::Type named Some(its key) in the Module.
C8_OneTypePerDefinition ==
    pc = "parsed" => \A i \in DOMAIN Schemas : TypeItemsNamed(Schemas[i].key) = 1

\* C8 amended: every inline entry of components/schemas yields exactly one
\* Item::Type named Some(its key) in the Module, an entry that is itself a
\* $ref yields none, and the Module holds no other Type item.
C8_OneTypePerInlineDefinition ==
    pc = "parsed" =>
        /\ \A i \in DOMAIN Schemas :
              TypeItemsNamed(Schemas[i].key) =
                  IF Schemas[i].value.tag = "Item" THEN 1 ELSE 0
        /\ Cardinality({k \in DOMAIN ModuleItems : ModuleItems[k].item = "Type"})
              = Cardinality({i \in DOMAIN Schemas : Schemas[i].value.tag = "Item"})

\* a document with an inline entry and a $ref entry has been converted
C8_Witness ==
    /\ pc = "parsed"
    /\ \E i \in DOMAIN Schemas : Schemas[i].value.tag = "Item"
    /\ \E i \in DOMAIN Schemas : Schemas[i].value.tag = "Reference"
    /\ \E k \in DOMAIN ModuleItems : ModuleItems[k].item = "Type"

(***************************************************************************)
(* C9  (refuted by the code, as C2: the fallback to Any of an item schema  *)
(* that cannot be resolved is never taken)                                 *)
(***************************************************************************)
\* C9: an array schema converts to Ref{"Vec"} with exactly one argument: the
\* resolved item type, or Ref{"Any"} when the array declares no item schema
\* or the item schema cannot be resolved.
C9_VecOfItemOrAny ==
    \A i \in ConvertedComponents :
        (SchemaOf(i).schema_kind = "Type" /\ SchemaOf(i).typ = "Array") =>
            /\ HasTypeItem(i)
            /\ TypeOf(i).kind = "Ref"
            /\ TypeOf(i).ref = S_Vec
            /\ Len(TypeOf(i).args) = 1
            /\ TypeOf(i).args[1] =
                  IF SchemaOf(i).items = None \/ Unresolvable(SchemaOf(i).items[1])
                  THEN reference(S_Any)
                  ELSE Resolved(SchemaOf(i).items[1])

(***************************************************************************)
(* C10  (refuted by the code: to_snake_case puts no "_" between an         *)
(* upper-case letter and a following upper-case character that has no      *)
(* lower-case form, and puts one there when it meets its own output)       *)
(***************************************************************************)
\* C10: normalizing a normalized name changes nothing, for to_snake_case and
\* for both to_pascal_case.
C10_NamingIdempotent ==
    nm.stage = "twice" =>
        /\ nm.snake2 = nm.snake
        /\ nm.pascal2 = nm.pascal
        /\ nm.rust_pascal2 = nm.rust_pascal

(***************************************************************************)
(* Properties of the generator, read from the file it has written.         *)
(***************************************************************************)
\* the text of the output file, once written
File == IF out.file = None THEN <<>> ELSE out.file[1]

RECURSIVE Flatten(_)
Flatten(seqs) == IF seqs = <<>> THEN <<>> ELSE Head(seqs) \o Flatten(Tail(seqs))

AllPositional(fields) == \A i \in DOMAIN fields : fields[i].name = None

IsStructShaped(fields) == fields # <<>> /\ ~AllPositional(fields)

\* the fields a Module item is emitted with as `name: type` lines, in order:
\* those of a field-shaped struct and of the struct-shaped variants of an enum
NamedFieldsOf(it) ==
    IF it.item # "Type" \/ it.typ.name = None THEN <<>>
    ELSE IF it.typ.kind = "Struct"
    THEN (IF IsStructShaped(it.typ.fields) THEN it.typ.fields ELSE <<>>)
    ELSE IF it.typ.kind = "Enum"
    THEN Flatten([v \in DOMAIN it.typ.variants |->
                     IF IsStructShaped(it.typ.variants[v].fields)
                     THEN it.typ.variants[v].fields ELSE <<>>])
    ELSE <<>>

EmittedFields == Flatten([i \in DOMAIN module[1].items |-> NamedFieldsOf(module[1].items[i])])

IsFieldLine(line) ==
    line.fmt \in {"    pub {field_name}: {typ_str},", "        {field_name}: {typ_str},"}

IsRenameLine(line) == line.fmt = "    #[serde(rename = \"{original}\")]"

\* the positions of the field lines of the file, in order
FieldLines == SelectSeq([i \in DOMAIN File |-> i], LAMBDA i : IsFieldLine(File[i]))

IRName(field) == IF field.name = None THEN <<"_">> ELSE field.name[1]

\* the line at position i of the file is the field `field`, with a rename
\* directive before it exactly if the identifier differs from the IR name
FieldRenamedIfChanged(i, field) ==
    IF File[i].args[1] # IRName(field)
    THEN i > 1 /\ IsRenameLine(File[i - 1]) /\ File[i - 1].args = <<IRName(field)>>
    ELSE ~(i > 1 /\ IsRenameLine(File[i - 1]))

\* C11: every field emitted by name, in a struct declaration or in a
\* struct-shaped enum variant, has a rename directive holding its IR name
\* just before it if its emitted identifier differs from the IR name, and has
\* no rename directive if the identifier is the IR name.
C11_FieldRenamedIffChanged ==
    out.file # None =>
        /\ Len(FieldLines) = Len(EmittedFields)
        /\ \A k \in DOMAIN FieldLines :
              FieldRenamedIfChanged(FieldLines[k], EmittedFields[k])

\* the formats of the lines that open the declaration of a Type item
TypeDeclFormats ==
    {"pub struct {name}{generics};", "pub struct {name}{generics}(",
     "pub struct {name}{generics} {{", "pub enum {name}{generics} {{",
     "pub enum {name} {{", "pub type {name} = {target}{args_str};",
     "pub type {name} = fn({}) -> {ret_str};", "// TODO: Intersection type {name}"}

FunctionDeclFormat == "pub async fn {func_name}{generics}({args}) -> {ret} {{"

ConstDeclFormat == "pub const {name}: {typ_str} = {val_str};"

IsDeclLine(line) ==
    line.fmt \in TypeDeclFormats \cup {FunctionDeclFormat, ConstDeclFormat}

\* the line opens the declaration of the item
Declares(line, it) ==
    CASE it.item = "Type" ->
            /\ line.fmt \in TypeDeclFormats
            /\ it.typ.name # None
            /\ line.args[1] = it.typ.name[1]
      [] it.item = "Function" ->
            line.fmt = FunctionDeclFormat /\ line.args[1] = to_snake_case(it.func.name)
      [] it.item = "Const" -> line.fmt = ConstDeclFormat /\ line.args[1] = it.name

\* the text the file must start with: the module doc comment if the Module
\* has docs, then the ApiError preamble
ClaimedHeader ==
    (IF module[1].docs = None THEN <<>>
     ELSE <<Line("//! {docs}", <<module[1].docs[1]>>), Line("", <<>>)>>)
    \o <<Line("use serde::{{Deserialize, Serialize}};", <<>>),
         Line("", <<>>),
         Line("/// API error type.", <<>>),
         Line("#[derive(Debug, Clone, PartialEq, Serialize, Deserialize)]", <<>>),
         Line("pub struct ApiError {{", <<>>),
         Line("    pub message: String,", <<>>),
         Line("    pub code: Option<String>,", <<>>),
         Line("}}", <<>>),
         Line("", <<>>)>>

\* the positions of the declaration lines of the file, in order
DeclLines == SelectSeq([i \in DOMAIN File |-> i], LAMBDA i : IsDeclLine(File[i]))

\* the file is the header followed by one declaration for each of its, in order
HeaderThenDeclarationsOf(its) ==
    /\ Len(File) >= Len(ClaimedHeader)
    /\ SubSeq(File, 1, Len(ClaimedHeader)) = ClaimedHeader
    /\ Len(DeclLines) = Len(its)
    /\ \A k \in DOMAIN DeclLines :
          /\ DeclLines[k] > Len(ClaimedHeader)
          /\ Declares(File[DeclLines[k]], its[k])

IsUnnamedType(it) == it.item = "Type" /\ it.typ.name = None

\* C12 as stated: the output text is the optional module doc comment, the
\* ApiError preamble, then exactly one declaration per Module item, in the
\* order of Module.items.
C12_OneDeclarationPerItem ==
    out.file # None => HeaderThenDeclarationsOf(module[1].items)

\* C12 amended: the output text is the optional module doc comment, the
\* ApiError preamble, then exactly one declaration per Module item that is
\* not a Type without a name, in the order of Module.items; a Type item
\* without a name adds nothing to the text.
C12_OneDeclarationPerNamedItem ==
    out.file # None =>
        HeaderThenDeclarationsOf(
            SelectSeq(module[1].items, LAMBDA it : ~IsUnnamedType(it)))

\* a file has been written for a Module with docs whose items are a Type
\* without a name and then a Function
C12_Witness ==
    /\ out.file # None
    /\ module[1].docs # None
    /\ Len(module[1].items) = 2
    /\ IsUnnamedType(module[1].items[1])
    /\ module[1].items[2].item = "Function"
    /\ Len(DeclLines) = 1

(***************************************************************************)
(* Properties of an invocation (main).                                     *)
(***************************************************************************)
FatalErrors == {"read_failed", "parse_failed", "unknown_target", "unknown_format"}

UnrecognizedTarget == cli.command = "Openapi" /\ cli.target # <<"r", "u", "s", "t">>

UnrecognizedFormat ==
    cli.command = "DumpIr" /\ cli.format \notin {<<"j", "s", "o", "n">>, <<"y", "a", "m", "l">>}

\* C13: when an invocation has ended with a fatal error (input unreadable,
\* input not parsed, unrecognized target, unrecognized dump format) nothing
\* has been produced: no output directory, no output file, nothing printed;
\* and an invocation with an unrecognized target or format never produces
\* anything on the way to its error.
C13_NoOutputAtFatalError ==
    /\ pc \in FatalErrors => out = [dir |-> FALSE, file |-> <<>>, stdout |-> <<>>]
    /\ UnrecognizedTarget \/ UnrecognizedFormat =>
          /\ out = [dir |-> FALSE, file |-> <<>>, stdout |-> <<>>]
          /\ code = <<>>

\* an invocation has converted a document into a Module with items and then
\* ended on an unrecognized target
C13_Witness ==
    /\ pc = "unknown_target"
    /\ UnrecognizedTarget
    /\ module # <<>>
    /\ module[1].items # <<>>

(***************************************************************************)
(* Intersection types in the generated text.                               *)
(***************************************************************************)
IsIntersection(typ) == typ.kind = "Intersection"

\* the texts that stand for another type than the intersection itself: the
\* texts of its members, and the text of Any
Substitutes(typ) ==
    {type_to_rust(typ.members[i]) : i \in DOMAIN typ.members}
        \cup {<<"s", "e", "r", "d", "e", "_", "j", "s", "o", "n", ":", ":", "V", "a", "l", "u", "e">>}

\* text, written for typ, does not pass a substitute off as an Intersection
\* that is typ itself or the one generic argument of typ
NoSubstituteIn(text, typ) ==
    /\ IsIntersection(typ) => text \notin Substitutes(typ)
    /\ (typ.kind = "Ref" /\ Len(typ.args) = 1 /\ IsIntersection(typ.args[1])) =>
          \A s \in Substitutes(typ.args[1]) : text # typ.ref \o <<"<">> \o s \o <<">">>

NamedItems == SelectSeq(module[1].items, LAMBDA it : ~IsUnnamedType(it))

\* C14: wherever the generator meets an Intersection it writes a placeholder
\* marker and never another type in its place: a named Intersection item is
\* declared by the placeholder line, and the text written for the type of a
\* field, for a return value or for a generic argument that is an
\* Intersection is not the text of one of its members nor of Any.
C14_IntersectionIsPlaceholder ==
    out.file # None =>
        /\ Len(DeclLines) = Len(NamedItems)
        /\ Len(FieldLines) = Len(EmittedFields)
        /\ \A k \in DOMAIN DeclLines :
              /\ (NamedItems[k].item = "Type" /\ IsIntersection(NamedItems[k].typ)) =>
                    File[DeclLines[k]].fmt = "// TODO: Intersection type {name}"
              /\ NamedItems[k].item = "Function" =>
                    NoSubstituteIn(File[DeclLines[k]].args[4], NamedItems[k].func.ret)
        /\ \A k \in DOMAIN FieldLines :
              NoSubstituteIn(File[FieldLines[k]].args[2], EmittedFields[k].typ)

(***************************************************************************)
(* Enum variants in the generated text.                                    *)
(***************************************************************************)
\* the variants a Module item is emitted with, in order
VariantsOf(it) ==
    IF it.item = "Type" /\ it.typ.name # None /\ it.typ.kind = "Enum"
    THEN it.typ.variants ELSE <<>>

EmittedVariants ==
    Flatten([i \in DOMAIN module[1].items |-> VariantsOf(module[1].items[i])])

IsVariantLine(line) ==
    line.fmt \in {"    {variant_name},", "    {variant_name}({}),", "    {variant_name} {{"}

\* the positions of the variant lines of the file, in order
VariantLines == SelectSeq([i \in DOMAIN File |-> i], LAMBDA i : IsVariantLine(File[i]))

\* the values of the "serde_rename" annotations of a variant that hold a String
RenameValues(variant) ==
    LET named == SelectSeq(variant.annotations,
                           LAMBDA a : /\ a.kind = <<"s", "e", "r", "d", "e", "_", "r", "e", "n", "a", "m", "e">>
                                      /\ a.value # <<>>
                                      /\ a.value[1].tag = "String")
    IN [k \in DOMAIN named |-> named[k].value[1].str]

\* the line at position i of the file is the variant, under its Pascal-cased
\* name, with a rename directive before it exactly if the variant has a
\* rename value and that value differs from the emitted name
VariantRenamedIfDiffers(i, variant) ==
    /\ File[i].args[1] = rust_to_pascal_case(variant.name)
    /\ IF RenameValues(variant) # <<>> /\ RenameValues(variant)[1] # File[i].args[1]
       THEN /\ i > 1
            /\ IsRenameLine(File[i - 1])
            /\ File[i - 1].args = <<RenameValues(variant)[1]>>
       ELSE ~(i > 1 /\ IsRenameLine(File[i - 1]))

\* C15: every enum variant, unit, tuple-shaped or struct-shaped, is emitted
\* under its Pascal-cased IR name; a rename directive holding the value of
\* its "serde_rename" string annotation stands just before it if that value
\* differs from the emitted name, and no rename directive stands there if
\* the value equals the emitted name or the variant has no such annotation.
C15_VariantRenamedIffDiffers ==
    out.file # None =>
        /\ Len(VariantLines) = Len(EmittedVariants)
        /\ \A k \in DOMAIN VariantLines :
              VariantRenamedIfDiffers(VariantLines[k], EmittedVariants[k])

(***************************************************************************)
(* The passes of an invocation, read from the stages it has logged.        *)
(***************************************************************************)
ConverterPass == <<"convert_enter", "convert_return">>

GeneratorPass == <<"generate_enter", "generate_return">>

IsPrefix(s, u) == Len(s) <= Len(u) /\ SubSeq(u, 1, Len(s)) = s

\* C16 as stated: an invocation (generate command or dump command) that has
\* run to its end has performed exactly one Converter pass followed by
\* exactly one Generator pass.
C16_OneConverterThenOneGenerator ==
    pc = "done" => stages = ConverterPass \o GeneratorPass

\* C16 amended: in every invocation the stages are a prefix of one
\* Converter pass followed by one Generator pass, so neither stage runs
\* twice, the Generator never starts before the Converter has returned its
\* Module and the Converter is never re-entered; the Generator runs only in a
\* generate command with a recognized target; a generate command that has
\* run to its end has performed exactly one Converter pass followed by
\* exactly one Generator pass, a dump command exactly one Converter pass and
\* no Generator pass.
C16_ConverterThenGeneratorAtMostOnce ==
    /\ IsPrefix(stages, ConverterPass \o GeneratorPass)
    /\ Len(stages) > Len(ConverterPass) =>
          /\ module # <<>>
          /\ cli.command = "Openapi"
          /\ ~UnrecognizedTarget
          /\ pc \notin {"start", "schemas", "paths"}
    /\ (pc = "done" /\ cli.command = "Openapi") => stages = ConverterPass \o GeneratorPass
    /\ (pc = "done" /\ cli.command = "DumpIr") => stages = ConverterPass

\* a generate command has run to its end on a Module of two items or more,
\* after one Converter pass and one Generator pass
C16_Witness ==
    /\ pc = "done"
    /\ cli.command = "Openapi"
    /\ stages = ConverterPass \o GeneratorPass
    /\ Len(module[1].items) >= 2
    /\ out.file # <<>>

(***************************************************************************)
(* The item list a document is to be converted to: one Type per inline     *)
(* component in document order, then one Function per defined operation,   *)
(* paths in document order and methods in the order of MethodOps.          *)
(***************************************************************************)
RECURSIVE ExpectedTypes(_)
ExpectedTypes(schemas) ==
    IF schemas = <<>> THEN <<>>
    ELSE (IF Head(schemas).value.tag = "Item"
          THEN <<[item |-> "Type",
                  typ |-> convert_schema(Head(schemas).value.item,
                                         Some(Head(schemas).key)).val]>>
          ELSE <<>>)
         \o ExpectedTypes(Tail(schemas))

ExpectedFunctions(ops) ==
    [k \in DOMAIN ops |->
        [item |-> "Function",
         func |-> convert_operation(ops[k].path, Methods[ops[k].method], ops[k].op).val]]

ExpectedItems == ExpectedTypes(Schemas) \o ExpectedFunctions(OperationsOf(spec[1].paths))

\* C17: the accumulator is empty when convert starts and only grows by
\* appending; the items of the final Module are one Type per inline
\* component in document order, then the Functions in path order and, within
\* a path, in the order get, post, put, delete, patch, head, options, trace;
\* every intermediate accumulator is a prefix of that final list.
C17_AccumulatorIsPrefixOfFinal ==
    /\ [](/\ (pc = "schemas" /\ si = 1) => items = <<>>
          /\ pc \in {"schemas", "paths"} => IsPrefix(items, ExpectedItems)
          /\ Parsed => module[1].items = ExpectedItems)
    /\ [][(pc \in {"schemas", "paths"}) => IsPrefix(items, items')]_vars

\* convert has returned a Module of a Type item followed by the two
\* Functions of one path item
C17_Witness ==
    /\ pc = "parsed"
    /\ Len(module[1].items) >= 3
    /\ module[1].items[1].item = "Type"
    /\ Len(Functions) >= 2
    /\ \E p \in DOMAIN spec[1].paths :
          /\ spec[1].paths[p].value.tag = "Item"
          /\ Len(DefinedMethods(spec[1].paths[p].value.item)) = 2
    /\ \E s \in DOMAIN Schemas : Schemas[s].value.tag = "Reference"

(***************************************************************************)
(* The right-hand side of the alias written for a named Ref item.          *)
(***************************************************************************)
AliasFormat == "pub type {name} = {target}{args_str};"

IsNamedRef(it) == it.item = "Type" /\ it.typ.name # None /\ it.typ.kind = "Ref"

\* the text between `= ` and `;` of an alias line
AliasRightHandSide(line) == line.args[2] \o line.args[3]

\* C18: the alias declared for a named Ref item has, as its right-hand side,
\* the text type_to_rust produces for that Ref: the name mapped through the
\* table (Any to serde_json::Value, Unit to (), Never to !) with the generic
\* arguments appended.
C18_AliasMatchesTypeToRust ==
    out.file # None =>
        /\ Len(DeclLines) = Len(NamedItems)
        /\ \A k \in DOMAIN NamedItems :
              IsNamedRef(NamedItems[k]) =>
                  /\ File[DeclLines[k]].fmt = AliasFormat
                  /\ File[DeclLines[k]].args[1] = NamedItems[k].typ.name[1]
                  /\ AliasRightHandSide(File[DeclLines[k]]) = type_to_rust(NamedItems[k].typ)

(***************************************************************************)
(* The operations of the whole document and the Functions made from them.  *)
(***************************************************************************)
AllOperations == OperationsOf(spec[1].paths)

\* the operations that carry no operationId, by position
Unidentified ==
    {k \in DOMAIN AllOperations : AllOperations[k].op.operation_id = None}

\* C19: within one Module, two operations without operationId that differ in
\* method or in path are given different fallback names.
C19_FallbackNamesInjective ==
    Parsed =>
        /\ Len(Functions) = Len(AllOperations)
        /\ \A k, l \in Unidentified :
              (AllOperations[k].method # AllOperations[l].method
                  \/ AllOperations[k].path # AllOperations[l].path)
              => Functions[k].name # Functions[l].name

(***************************************************************************)
(* Enumerations of pairwise distinct, non-empty literals.                  *)
(***************************************************************************)
DistinctLiterals(enumeration) ==
    /\ \A k \in DOMAIN enumeration : enumeration[k] # None /\ enumeration[k][1] # <<>>
    /\ \A k, l \in DOMAIN enumeration : k # l => enumeration[k] # enumeration[l]

\* C20: a string schema whose enumerated literals are pairwise distinct and
\* non-empty is converted to an Enum whose variant names are pairwise
\* distinct and non-empty.
C20_VariantNamesDistinct ==
    \A i \in ConvertedComponents :
        (IsEnumSchema(SchemaOf(i)) /\ DistinctLiterals(SchemaOf(i).enumeration)) =>
            /\ HasTypeItem(i)
            /\ TypeOf(i).kind = "Enum"
            /\ \A k \in DOMAIN TypeOf(i).variants : TypeOf(i).variants[k].name # <<>>
            /\ \A k, l \in DOMAIN TypeOf(i).variants :
                  k # l => TypeOf(i).variants[k].name # TypeOf(i).variants[l].name

====
